---- MODULE Spec2Model ----
(***************************************************************************)
(* Model of the perfect-pitch learning engine: the Mastery Tracker of      *)
(* src/src/engine/ProgressTracker.js with the constants of                 *)
(* src/src/constants/notes.js.  A ProgressState is a record; noteProgress  *)
(* is a partial map: a function whose domain is the set of                 *)
(* <<note, instrument>> pairs that have a NoteProgress record.  The phase   *)
(* state machine (PhaseManager) is modelled from its source, which is      *)
(* included in src/src/engine/ProgressTracker.test.js (lines 1206-1523).   *)
(*                                                                         *)
(* state is the ProgressState and phaseState the PhaseState; op and ret    *)
(* are the last call made and what it returned, pre the ProgressState it   *)
(* was made on; recorded is the log of the results recorded in SpecRecord. *)
(* The StorageManager is modelled from its source in src/unnamed/part_000  *)
(* (lines 357-431): localStorage is the content of its key, fault the way  *)
(* the store fails, cleared whether the last successful write was a reset. *)
(* The useGamePhase hook is modelled from its source in                    *)
(* src/src/hooks/useGamePhase.integration.test.js (lines 443-1156): hook   *)
(* is its state, refs and pending timers.  Its combo bookkeeping           *)
(* (getNewlyEligibleInstruments, isComboIntroduced, markComboIntroduced)   *)
(* drives hints and bonus playback only and is left out, and so are the    *)
(* audio and the circle, message and indicator states.                     *)
(***************************************************************************)
EXTENDS Integers, Sequences, FiniteSets, Bags, TLC

VARIABLES state, pre, op, ret, answers, recorded,
          phaseState, steps, starts,
          localStorage, fault, cleared,
          hook, audio

\* the variables of the phase state machine
phaseVars == <<phaseState, steps, starts>>

\* the variables of the persistent store
storageVars == <<localStorage, fault, cleared>>

\* the variables outside the two engines
appVars == <<storageVars, hook, audio>>

vars == <<state, pre, op, ret, answers, recorded, phaseVars, appVars>>

(* ------------------------------ bounds --------------------------------- *)

\* number of single recordAnswer calls explored in one behaviour of Spec
MaxAnswers == 1

\* cap on the attempts counter of one (note, instrument) pair in Spec
MaxAttempts == 11

\* the drawn states of SpecCalls end with MaxWrong or fewer wrong answers
\* followed by MaxRight or fewer correct ones on one (note, instrument) pair
MaxWrong == 6
MaxRight == 3

\* number of answers recorded for one pair in SpecRecord
MaxRecorded == 11

\* Math.random() takes the values 0/RandSteps .. (RandSteps - 1)/RandSteps
RandSteps == 4

\* phases started in one behaviour of SpecPhase
MaxStarts == 2

\* advance, tap and answer calls made after the phase is complete
MaxExtra == 1

\* largest totalRounds argument of startQuizPhase
MaxRounds == 3

\* steps of one phase followed in SpecPhase
MaxDepth == 1

\* setTimeout callbacks of the hook pending at one time
MaxTimeouts == 2

\* restart() calls in one behaviour of SpecHookSession
MaxRestarts == 1

\* answers given to one quiz in SpecHookQuiz
MaxQuizTaps == 2

\* answers given in one behaviour of SpecHookSession
MaxSessionAnswers == 6

\* sample loads that end in onerror in one behaviour of SpecAudio
MaxFailedLoads == 3

(* ----------------------------- constants ------------------------------- *)

NOTE_INTRODUCTION_ORDER ==
    << "C4", "G4", "E4", "A4", "D4", "F4",
       "B4", "Bb4", "F#4", "Eb4", "C#4", "Ab4" >>

INSTRUMENTS == << "piano", "xylophone", "guitar-acoustic" >>

\* accuracies are exact fractions num/den (den > 0)
MASTERY_THRESHOLDS ==
    [ promotionAccuracy |-> [num |-> 8, den |-> 10],
      promotionStreak   |-> 3,
      demotionAccuracy  |-> [num |-> 5, den |-> 10],
      rollingWindow     |-> 10,
      maxActiveNotes    |-> 6 ]

\* JavaScript null (nextNote / noteToRemove when a check does not fire)
NULL == "null"

(* ------------------------------ helpers -------------------------------- *)

Range(s) == { s[i] : i \in 1..Len(s) }

Min(S) == CHOOSE x \in S : \A y \in S : x <= y

\* a >= b and a < b on fractions
FracGE(a, b) == a.num * b.den >= b.num * a.den
FracLT(a, b) == a.num * b.den < b.num * a.den

\* noteProgress[note]?.[instrument] is defined
HasProgress(noteProgress, note, instrument) ==
    <<note, instrument>> \in DOMAIN noteProgress

\* { ...map, [key]: value }
Put(map, key, value) ==
    [ k \in (DOMAIN map) \cup {key} |-> IF k = key THEN value ELSE map[k] ]

\* array.filter(keep)
RECURSIVE FilterOut(_, _)
FilterOut(s, x) ==
    IF s = <<>> THEN <<>>
    ELSE IF Head(s) = x THEN FilterOut(Tail(s), x)
         ELSE <<Head(s)>> \o FilterOut(Tail(s), x)

\* a value that may be null or undefined (an object, an array) is a set
\* with at most one element: Null, or Some(v) when it is v
Null == {}
Some(v) == {v}
Get(m) == CHOOSE v \in m : TRUE

\* throw new Error(message); detail is the value interpolated in the message
Throw(message, detail) == [error |-> message, detail |-> detail]

Threw(result) == "error" \in DOMAIN result

\* Math.random() is random / RandSteps for random in RandomDraws
RandomDraws == 0..(RandSteps - 1)

(* --------------------------- ProgressTracker --------------------------- *)

createNoteProgress ==
    [ attempts |-> 0, correct |-> 0, streak |-> 0, recentResults |-> <<>> ]

createInitialState ==
    LET initialNotes       == SubSeq(NOTE_INTRODUCTION_ORDER, 1, 2)
        initialInstruments == << "piano" >>
    IN  [ noteProgress      |-> [ k \in Range(initialNotes) \X Range(initialInstruments)
                                    |-> createNoteProgress ],
          activeNotes       |-> initialNotes,
          activeInstruments |-> initialInstruments,
          currentStage      |-> 1,
          sessionsPlayed    |-> 0 ]

\* variant: the window is cut at its end, dropping the newest result
recordAnswer_dropsNewest(s, note, instrument, wasCorrect) ==
    LET existingInstrumentProgress ==
            IF HasProgress(s.noteProgress, note, instrument)
            THEN s.noteProgress[<<note, instrument>>]
            ELSE createNoteProgress
        pushed == Append(existingInstrumentProgress.recentResults, wasCorrect)
        newRecentResults ==
            IF Len(pushed) > MASTERY_THRESHOLDS.rollingWindow
            THEN SubSeq(pushed, 1, MASTERY_THRESHOLDS.rollingWindow)
            ELSE pushed
        newStreak == IF wasCorrect THEN existingInstrumentProgress.streak + 1 ELSE 0
        updatedInstrumentProgress ==
            [ attempts      |-> existingInstrumentProgress.attempts + 1,
              correct       |-> existingInstrumentProgress.correct
                                  + (IF wasCorrect THEN 1 ELSE 0),
              streak        |-> newStreak,
              recentResults |-> newRecentResults ]
    IN  [ s EXCEPT !.noteProgress =
              Put(@, <<note, instrument>>, updatedInstrumentProgress) ]

\* variant: the streak is counted in the window
recordAnswer_windowStreak(s, note, instrument, wasCorrect) ==
    LET existingInstrumentProgress ==
            IF HasProgress(s.noteProgress, note, instrument)
            THEN s.noteProgress[<<note, instrument>>]
            ELSE createNoteProgress
        pushed == Append(existingInstrumentProgress.recentResults, wasCorrect)
        newRecentResults ==
            IF Len(pushed) > MASTERY_THRESHOLDS.rollingWindow
            THEN Tail(pushed)
            ELSE pushed
        misses == { i \in 1..Len(newRecentResults) : ~newRecentResults[i] }
        newStreak == Len(newRecentResults)
                        - (IF misses = {} THEN 0
                           ELSE CHOOSE i \in misses : \A j \in misses : j <= i)
        updatedInstrumentProgress ==
            [ attempts      |-> existingInstrumentProgress.attempts + 1,
              correct       |-> existingInstrumentProgress.correct
                                  + (IF wasCorrect THEN 1 ELSE 0),
              streak        |-> newStreak,
              recentResults |-> newRecentResults ]
    IN  [ s EXCEPT !.noteProgress =
              Put(@, <<note, instrument>>, updatedInstrumentProgress) ]

\* variant: every answer is counted as correct
recordAnswer_countsAll(s, note, instrument, wasCorrect) ==
    LET existingInstrumentProgress ==
            IF HasProgress(s.noteProgress, note, instrument)
            THEN s.noteProgress[<<note, instrument>>]
            ELSE createNoteProgress
        pushed == Append(existingInstrumentProgress.recentResults, wasCorrect)
        newRecentResults ==
            IF Len(pushed) > MASTERY_THRESHOLDS.rollingWindow
            THEN Tail(pushed)
            ELSE pushed
        updatedInstrumentProgress ==
            [ attempts      |-> existingInstrumentProgress.attempts + 1,
              correct       |-> existingInstrumentProgress.correct + 1,
              streak        |-> IF wasCorrect
                                THEN existingInstrumentProgress.streak + 1 ELSE 0,
              recentResults |-> newRecentResults ]
    IN  [ s EXCEPT !.noteProgress =
              Put(@, <<note, instrument>>, updatedInstrumentProgress) ]

recordAnswer(s, note, instrument, wasCorrect) ==
    LET existingInstrumentProgress ==
            IF HasProgress(s.noteProgress, note, instrument)
            THEN s.noteProgress[<<note, instrument>>]
            ELSE createNoteProgress
        pushed == Append(existingInstrumentProgress.recentResults, wasCorrect)
        newRecentResults ==
            IF Len(pushed) > MASTERY_THRESHOLDS.rollingWindow
            THEN Tail(pushed)
            ELSE pushed
        newStreak == IF wasCorrect THEN existingInstrumentProgress.streak + 1 ELSE 0
        updatedInstrumentProgress ==
            [ attempts      |-> existingInstrumentProgress.attempts + 1,
              correct       |-> existingInstrumentProgress.correct
                                  + (IF wasCorrect THEN 1 ELSE 0),
              streak        |-> newStreak,
              recentResults |-> newRecentResults ]
    IN  [ s EXCEPT !.noteProgress =
              Put(@, <<note, instrument>>, updatedInstrumentProgress) ]

getRollingAccuracy(noteProgress) ==
    LET results == noteProgress.recentResults
        correctCount == Cardinality({ i \in 1..Len(results) : results[i] = TRUE })
    IN  IF Len(results) = 0
        THEN [num |-> 0, den |-> 1]
        ELSE [num |-> correctCount, den |-> Len(results)]

\* variant: accuracy must exceed the threshold
isNoteMastered_strict(noteProgress) ==
    /\ ~FracGE(MASTERY_THRESHOLDS.promotionAccuracy, getRollingAccuracy(noteProgress))
    /\ noteProgress.streak >= MASTERY_THRESHOLDS.promotionStreak

isNoteMastered(noteProgress) ==
    /\ FracGE(getRollingAccuracy(noteProgress), MASTERY_THRESHOLDS.promotionAccuracy)
    /\ noteProgress.streak >= MASTERY_THRESHOLDS.promotionStreak

\* the loop of getEligibleInstruments from index i on (1-based)
RECURSIVE EligibleFrom(_, _, _, _)
EligibleFrom(s, note, i, eligible) ==
    IF i > Len(INSTRUMENTS) THEN eligible
    ELSE LET previousInstrument == INSTRUMENTS[i - 1]
         IN  IF /\ HasProgress(s.noteProgress, note, previousInstrument)
                /\ isNoteMastered(s.noteProgress[<<note, previousInstrument>>])
             THEN EligibleFrom(s, note, i + 1, Append(eligible, INSTRUMENTS[i]))
             ELSE eligible

\* variant: the loop goes on after an unmastered instrument
RECURSIVE EligibleFrom_noBreak(_, _, _, _)
EligibleFrom_noBreak(s, note, i, eligible) ==
    IF i > Len(INSTRUMENTS) THEN eligible
    ELSE LET previousInstrument == INSTRUMENTS[i - 1]
         IN  IF /\ HasProgress(s.noteProgress, note, previousInstrument)
                /\ isNoteMastered(s.noteProgress[<<note, previousInstrument>>])
             THEN EligibleFrom_noBreak(s, note, i + 1, Append(eligible, INSTRUMENTS[i]))
             ELSE EligibleFrom_noBreak(s, note, i + 1, eligible)

getEligibleInstruments_noBreak(s, note) ==
    EligibleFrom_noBreak(s, note, 2, << INSTRUMENTS[1] >>)

getEligibleInstruments(s, note) ==
    EligibleFrom(s, note, 2, << INSTRUMENTS[1] >>)

\* weights are whole numbers of 1/WeightScale, the least common multiple
\* of the window lengths 1..10
WeightScale == 2520

\* Math.max(a, b)
Max(a, b) == IF a >= b THEN a ELSE b

\* variant: no floor under the weight of an accurate note
noteWeight_noFloor(s, note, instrument) ==
    IF \/ ~HasProgress(s.noteProgress, note, instrument)
       \/ s.noteProgress[<<note, instrument>>].attempts = 0
    THEN WeightScale
    ELSE LET accuracy == getRollingAccuracy(s.noteProgress[<<note, instrument>>])
         IN  WeightScale - (WeightScale * accuracy.num) \div accuracy.den

\* one entry of the weights array
noteWeight(s, note, instrument) ==
    IF \/ ~HasProgress(s.noteProgress, note, instrument)
       \/ s.noteProgress[<<note, instrument>>].attempts = 0
    THEN WeightScale
    ELSE LET accuracy == getRollingAccuracy(s.noteProgress[<<note, instrument>>])
         IN  Max(WeightScale \div 10,
                 WeightScale - (WeightScale * accuracy.num) \div accuracy.den)

RECURSIVE SumWeights(_, _, _)
SumWeights(s, instrument, i) ==
    IF i > Len(s.activeNotes) THEN 0
    ELSE noteWeight(s, s.activeNotes[i], instrument) + SumWeights(s, instrument, i + 1)

\* the selection loop from position i on; random is in units of
\* 1 / (WeightScale * RandSteps)
RECURSIVE SelectFrom(_, _, _, _)
SelectFrom(s, instrument, i, random) ==
    IF i > Len(s.activeNotes)
    THEN s.activeNotes[Len(s.activeNotes)]
    ELSE LET rest == random - noteWeight(s, s.activeNotes[i], instrument) * RandSteps
         IN  IF rest <= 0 THEN s.activeNotes[i]
             ELSE SelectFrom(s, instrument, i + 1, rest)

\* variant: the empty list is not checked, the fallback reads
\* activeNotes[-1]
getWeightedNoteSelection_noEmptyCheck(s, instrument, draw, excess) ==
    IF Len(s.activeNotes) = 0
    THEN [note |-> NULL, randomCalls |-> 1]
    ELSE IF Len(s.activeNotes) = 1
    THEN [note |-> s.activeNotes[1], randomCalls |-> 0]
    ELSE [note |-> SelectFrom(s, instrument, 1,
                              draw * SumWeights(s, instrument, 1) + excess),
          randomCalls |-> 1]

\* the result is the note and the number of Math.random() calls made.
\* Math.random() * totalWeight is draw / RandSteps of the total; in floating
\* point the product may round up to the total (draw = RandSteps) and the
\* subtractions may leave a positive remainder (excess)
getWeightedNoteSelection(s, instrument, draw, excess) ==
    IF Len(s.activeNotes) = 0
    THEN Throw("No active notes to select from", NULL)
    ELSE IF Len(s.activeNotes) = 1
    THEN [note |-> s.activeNotes[1], randomCalls |-> 0]
    ELSE [note |-> SelectFrom(s, instrument, 1,
                              draw * SumWeights(s, instrument, 1) + excess),
          randomCalls |-> 1]

\* NOTE_INTRODUCTION_ORDER.find((note) => !activeNotes.includes(note))
findNextNote(s) ==
    LET missing == { i \in 1..Len(NOTE_INTRODUCTION_ORDER) :
                       NOTE_INTRODUCTION_ORDER[i] \notin Range(s.activeNotes) }
    IN  IF missing = {} THEN NULL ELSE NOTE_INTRODUCTION_ORDER[Min(missing)]

\* variant: the loop looks at the first eligible instrument of each note
allEligibleMastered_firstEligible(s) ==
    \A n \in 1..Len(s.activeNotes) :
       LET note == s.activeNotes[n]
           eligibleInstruments == getEligibleInstruments(s, note)
       IN  /\ HasProgress(s.noteProgress, note, eligibleInstruments[1])
           /\ isNoteMastered(s.noteProgress[<<note, eligibleInstruments[1]>>])

\* the loop of checkPromotion over the notes' eligible instruments
allEligibleMastered(s) ==
    \A n \in 1..Len(s.activeNotes) :
       LET note == s.activeNotes[n]
           eligibleInstruments == getEligibleInstruments(s, note)
       IN  \A k \in 1..Len(eligibleInstruments) :
              /\ HasProgress(s.noteProgress, note, eligibleInstruments[k])
              /\ isNoteMastered(s.noteProgress[<<note, eligibleInstruments[k]>>])

\* variant: without the maxActiveNotes check
checkPromotion_noMax(s) ==
    IF findNextNote(s) = NULL
    THEN [shouldPromote |-> FALSE, nextNote |-> NULL]
    ELSE IF ~allEligibleMastered(s)
    THEN [shouldPromote |-> FALSE, nextNote |-> NULL]
    ELSE [shouldPromote |-> TRUE, nextNote |-> findNextNote(s)]

\* variant: mastery is checked on the first instrument alone
checkPromotion_firstInstrument(s) ==
    IF Len(s.activeNotes) >= MASTERY_THRESHOLDS.maxActiveNotes
    THEN [shouldPromote |-> FALSE, nextNote |-> NULL]
    ELSE IF findNextNote(s) = NULL
    THEN [shouldPromote |-> FALSE, nextNote |-> NULL]
    ELSE IF \E n \in 1..Len(s.activeNotes) :
               \/ ~HasProgress(s.noteProgress, s.activeNotes[n], INSTRUMENTS[1])
               \/ ~isNoteMastered(s.noteProgress[<<s.activeNotes[n], INSTRUMENTS[1]>>])
    THEN [shouldPromote |-> FALSE, nextNote |-> NULL]
    ELSE [shouldPromote |-> TRUE, nextNote |-> findNextNote(s)]

checkPromotion(s) ==
    IF Len(s.activeNotes) >= MASTERY_THRESHOLDS.maxActiveNotes
    THEN [shouldPromote |-> FALSE, nextNote |-> NULL]
    ELSE IF findNextNote(s) = NULL
    THEN [shouldPromote |-> FALSE, nextNote |-> NULL]
    ELSE IF ~allEligibleMastered(s)
    THEN [shouldPromote |-> FALSE, nextNote |-> NULL]
    ELSE [shouldPromote |-> TRUE, nextNote |-> findNextNote(s)]

\* the new note's entries: existing ones kept, one zeroed entry for each
\* instrument in rotation that it lacks
promotedProgress(s, nextNote) ==
    LET created == { <<nextNote, s.activeInstruments[j]>> :
                       j \in 1..Len(s.activeInstruments) } \ DOMAIN s.noteProgress
    IN  [ k \in (DOMAIN s.noteProgress) \cup created |->
            IF k \in DOMAIN s.noteProgress THEN s.noteProgress[k]
            ELSE createNoteProgress ]

\* variant: the new note starts from zeroed entries, as in addNextNote
applyPromotion_freshProgress(s) ==
    LET check    == checkPromotion(s)
        nextNote == check.nextNote
        fresh    == { <<nextNote, s.activeInstruments[j]>> :
                        j \in 1..Len(s.activeInstruments) }
        kept     == { k \in DOMAIN s.noteProgress : k[1] # nextNote }
    IN  IF ~check.shouldPromote \/ nextNote = NULL
        THEN s
        ELSE [ s EXCEPT
                 !.activeNotes  = Append(@, nextNote),
                 !.noteProgress = [ k \in kept \cup fresh |->
                                      IF k \in fresh THEN createNoteProgress
                                      ELSE s.noteProgress[k] ],
                 !.currentStage = @ + 1 ]

\* variant: currentStage is not incremented
applyPromotion_keepStage(s) ==
    LET check    == checkPromotion(s)
        nextNote == check.nextNote
    IN  IF ~check.shouldPromote \/ nextNote = NULL
        THEN s
        ELSE [ s EXCEPT
                 !.activeNotes  = Append(@, nextNote),
                 !.noteProgress = promotedProgress(s, nextNote) ]

applyPromotion(s) ==
    LET check    == checkPromotion(s)
        nextNote == check.nextNote
    IN  IF ~check.shouldPromote \/ nextNote = NULL
        THEN s
        ELSE [ s EXCEPT
                 !.activeNotes  = Append(@, nextNote),
                 !.noteProgress = promotedProgress(s, nextNote),
                 !.currentStage = @ + 1 ]

\* the scan of checkDemotion: some active note on some instrument in
\* rotation has recorded results and accuracy below demotionAccuracy
belowDemotionAccuracy(s) ==
    \E n \in 1..Len(s.activeNotes), j \in 1..Len(s.activeInstruments) :
       LET note == s.activeNotes[n]
           instrument == s.activeInstruments[j]
       IN  /\ HasProgress(s.noteProgress, note, instrument)
           /\ Len(s.noteProgress[<<note, instrument>>].recentResults) > 0
           /\ FracLT(getRollingAccuracy(s.noteProgress[<<note, instrument>>]),
                     MASTERY_THRESHOLDS.demotionAccuracy)

\* variant: accuracy equal to the threshold demotes too
checkDemotion_inclusive(s) ==
    LET atOrBelow ==
            \E n \in 1..Len(s.activeNotes), j \in 1..Len(s.activeInstruments) :
               LET note == s.activeNotes[n]
                   instrument == s.activeInstruments[j]
               IN  /\ HasProgress(s.noteProgress, note, instrument)
                   /\ Len(s.noteProgress[<<note, instrument>>].recentResults) > 0
                   /\ FracGE(MASTERY_THRESHOLDS.demotionAccuracy,
                             getRollingAccuracy(s.noteProgress[<<note, instrument>>]))
    IN  IF Len(s.activeNotes) <= 2
        THEN [shouldDemote |-> FALSE, noteToRemove |-> NULL]
        ELSE IF ~atOrBelow
        THEN [shouldDemote |-> FALSE, noteToRemove |-> NULL]
        ELSE [shouldDemote |-> TRUE,
              noteToRemove |-> s.activeNotes[Len(s.activeNotes)]]

\* variant: the oldest note is the one to remove
checkDemotion_oldestNote(s) ==
    IF Len(s.activeNotes) <= 2
    THEN [shouldDemote |-> FALSE, noteToRemove |-> NULL]
    ELSE IF ~belowDemotionAccuracy(s)
    THEN [shouldDemote |-> FALSE, noteToRemove |-> NULL]
    ELSE [shouldDemote |-> TRUE, noteToRemove |-> s.activeNotes[1]]

checkDemotion(s) ==
    IF Len(s.activeNotes) <= 2
    THEN [shouldDemote |-> FALSE, noteToRemove |-> NULL]
    ELSE IF ~belowDemotionAccuracy(s)
    THEN [shouldDemote |-> FALSE, noteToRemove |-> NULL]
    ELSE [shouldDemote |-> TRUE,
          noteToRemove |-> s.activeNotes[Len(s.activeNotes)]]

\* variant: without the two-note minimum
applyDemotion_noMinimum(s, noteToRemove) ==
    IF noteToRemove \notin Range(s.activeNotes) THEN s
    ELSE [ s EXCEPT
             !.activeNotes  = FilterOut(@, noteToRemove),
             !.currentStage = IF @ - 1 > 1 THEN @ - 1 ELSE 1 ]

\* variant: the stage is left as it was
applyDemotion_keepStage(s, noteToRemove) ==
    IF Len(s.activeNotes) <= 2 THEN s
    ELSE IF noteToRemove \notin Range(s.activeNotes) THEN s
    ELSE [ s EXCEPT !.activeNotes = FilterOut(@, noteToRemove) ]

applyDemotion(s, noteToRemove) ==
    IF Len(s.activeNotes) <= 2 THEN s
    ELSE IF noteToRemove \notin Range(s.activeNotes) THEN s
    ELSE [ s EXCEPT
             !.activeNotes  = FilterOut(@, noteToRemove),
             !.currentStage = IF @ - 1 > 1 THEN @ - 1 ELSE 1 ]

\* the note at index activeNotes.length of the order joins with zeroed
\* entries for the instruments in rotation
addNextNote(s) ==
    LET nextNoteIndex == Len(s.activeNotes)
    IN  IF nextNoteIndex >= Len(NOTE_INTRODUCTION_ORDER) THEN s
        ELSE LET nextNote == NOTE_INTRODUCTION_ORDER[nextNoteIndex + 1]
                 fresh    == { <<nextNote, s.activeInstruments[j]>> :
                                 j \in 1..Len(s.activeInstruments) }
                 kept     == { k \in DOMAIN s.noteProgress : k[1] # nextNote }
             IN  [ s EXCEPT
                     !.activeNotes  = Append(@, nextNote),
                     !.noteProgress = [ k \in kept \cup fresh |->
                                          IF k \in fresh THEN createNoteProgress
                                          ELSE s.noteProgress[k] ],
                     !.currentStage = @ + 1 ]

\* variant: the promoted state is not returned, the demotion check follows
applyAdaptiveDifficulty_noReturn(s) ==
    LET demotion == checkDemotion(s)
    IN  IF demotion.shouldDemote /\ demotion.noteToRemove # NULL
        THEN applyDemotion(s, demotion.noteToRemove)
        ELSE s

applyAdaptiveDifficulty(s) ==
    IF checkPromotion(s).shouldPromote
    THEN applyPromotion(s)
    ELSE LET demotion == checkDemotion(s)
         IN  IF demotion.shouldDemote /\ demotion.noteToRemove # NULL
             THEN applyDemotion(s, demotion.noteToRemove)
             ELSE s

(* ----------------------------- PhaseManager ---------------------------- *)
(* The phase state machine.  The payloads of a PhaseState and the          *)
(* activeNotes argument may be null: they are Null or Some(v).             *)

PHASES ==
    [ LISTEN |-> "LISTEN", EXPLORE |-> "EXPLORE", QUIZ |-> "QUIZ", RESULT |-> "RESULT" ]

PhaseManager_createInitialState ==
    [ phase |-> NULL, listen |-> Null, explore |-> Null, quiz |-> Null, result |-> Null ]

\* Math.floor(Math.random() * notes.length), as a 1-based position
selectRandomNote(notes, random) ==
    notes[((random * Len(notes)) \div RandSteps) + 1]

startListenPhase(s, activeNotes) ==
    IF activeNotes = Null \/ Len(Get(activeNotes)) = 0
    THEN Throw("activeNotes must be a non-empty array", NULL)
    ELSE [ s EXCEPT !.phase = PHASES.LISTEN,
                    !.listen = Some([ activeNotes  |-> Get(activeNotes),
                                      currentIndex |-> 0,
                                      isComplete   |-> FALSE ]) ]

\* variant: the guard looks at the payload instead of the phase
advanceListenNote_payloadGuard(s) ==
    IF s.listen = Null
    THEN Throw("Cannot advance listen note in phase", s.phase)
    ELSE LET listen     == Get(s.listen)
             nextIndex  == listen.currentIndex + 1
             isComplete == nextIndex >= Len(listen.activeNotes)
             newState   ==
                 [ s EXCEPT !.listen =
                       Some([ listen EXCEPT
                                !.currentIndex = IF isComplete THEN @ ELSE nextIndex,
                                !.isComplete   = isComplete ]) ]
         IN  [ state |-> newState,
               status |-> IF isComplete THEN "complete" ELSE "playing" ]

\* variant: the sequence ends one advance late
advanceListenNote_lateEnd(s) ==
    IF s.phase # PHASES.LISTEN
    THEN Throw("Cannot advance listen note in phase", s.phase)
    ELSE LET listen     == Get(s.listen)
             nextIndex  == listen.currentIndex + 1
             isComplete == nextIndex > Len(listen.activeNotes)
             newState   ==
                 [ s EXCEPT !.listen =
                       Some([ listen EXCEPT
                                !.currentIndex = IF isComplete THEN @ ELSE nextIndex,
                                !.isComplete   = isComplete ]) ]
         IN  [ state |-> newState,
               status |-> IF isComplete THEN "complete" ELSE "playing" ]

advanceListenNote(s) ==
    IF s.phase # PHASES.LISTEN
    THEN Throw("Cannot advance listen note in phase", s.phase)
    ELSE LET listen     == Get(s.listen)
             nextIndex  == listen.currentIndex + 1
             isComplete == nextIndex >= Len(listen.activeNotes)
             newState   ==
                 [ s EXCEPT !.listen =
                       Some([ listen EXCEPT
                                !.currentIndex = IF isComplete THEN @ ELSE nextIndex,
                                !.isComplete   = isComplete ]) ]
         IN  [ state |-> newState,
               status |-> IF isComplete THEN "complete" ELSE "playing" ]

\* currentIndex counts from 0
getCurrentListenNote(s) ==
    IF s.phase # PHASES.LISTEN \/ s.listen = Null
    THEN NULL
    ELSE Get(s.listen).activeNotes[Get(s.listen).currentIndex + 1]

\* variant: the phase is entered without its payload
startExplorePhase_noPayload(s, now) ==
    [ s EXCEPT !.phase = PHASES.EXPLORE ]

\* now is the value of Date.now()
startExplorePhase(s, now) ==
    [ s EXCEPT !.phase = PHASES.EXPLORE,
               !.explore = Some([ tapCount   |-> 0,
                                  startTime  |-> now,
                                  isComplete |-> FALSE ]) ]

\* the default of recordExploreTap's maxTaps parameter
DefaultMaxTaps == 6

\* variant: one tap more than maxTaps is needed
recordExploreTap_lateEnd(s, maxTaps) ==
    IF s.phase # PHASES.EXPLORE
    THEN Throw("Cannot record explore tap in phase", s.phase)
    ELSE LET explore     == Get(s.explore)
             newTapCount == explore.tapCount + 1
             isComplete  == newTapCount > maxTaps
             newState    ==
                 [ s EXCEPT !.explore =
                       Some([ explore EXCEPT !.tapCount   = newTapCount,
                                             !.isComplete = isComplete ]) ]
         IN  [ state |-> newState,
               status |-> IF isComplete THEN "complete" ELSE "exploring" ]

recordExploreTap(s, maxTaps) ==
    IF s.phase # PHASES.EXPLORE
    THEN Throw("Cannot record explore tap in phase", s.phase)
    ELSE LET explore     == Get(s.explore)
             newTapCount == explore.tapCount + 1
             isComplete  == newTapCount >= maxTaps
             newState    ==
                 [ s EXCEPT !.explore =
                       Some([ explore EXCEPT !.tapCount   = newTapCount,
                                             !.isComplete = isComplete ]) ]
         IN  [ state |-> newState,
               status |-> IF isComplete THEN "complete" ELSE "exploring" ]

\* variant: totalRounds is not checked
startQuizPhase_noRoundsCheck(s, activeNotes, totalRounds, random) ==
    IF activeNotes = Null \/ Len(Get(activeNotes)) = 0
    THEN Throw("activeNotes must be a non-empty array", NULL)
    ELSE LET firstQuestion == selectRandomNote(Get(activeNotes), random)
         IN  [ s EXCEPT !.phase = PHASES.QUIZ,
                        !.quiz = Some([ activeNotes     |-> Get(activeNotes),
                                        currentQuestion |-> firstQuestion,
                                        roundNumber     |-> 1,
                                        totalRounds     |-> totalRounds,
                                        results         |-> <<>>,
                                        isComplete      |-> FALSE ]) ]

\* random is the draw of selectRandomNote's Math.random()
startQuizPhase(s, activeNotes, totalRounds, random) ==
    IF activeNotes = Null \/ Len(Get(activeNotes)) = 0
    THEN Throw("activeNotes must be a non-empty array", NULL)
    ELSE IF totalRounds < 1
    THEN Throw("totalRounds must be at least 1", NULL)
    ELSE LET firstQuestion == selectRandomNote(Get(activeNotes), random)
         IN  [ s EXCEPT !.phase = PHASES.QUIZ,
                        !.quiz = Some([ activeNotes     |-> Get(activeNotes),
                                        currentQuestion |-> firstQuestion,
                                        roundNumber     |-> 1,
                                        totalRounds     |-> totalRounds,
                                        results         |-> <<>>,
                                        isComplete      |-> FALSE ]) ]

\* variant: the last round is detected one answer late
answerQuiz_lateEnd(s, noteTapped, random) ==
    IF s.phase # PHASES.QUIZ
    THEN Throw("Cannot answer quiz in phase", s.phase)
    ELSE LET quiz        == Get(s.quiz)
             correct     == noteTapped = quiz.currentQuestion
             correctNote == quiz.currentQuestion
             newResults  == Append(quiz.results,
                                   [ round    |-> quiz.roundNumber,
                                     question |-> quiz.currentQuestion,
                                     answer   |-> noteTapped,
                                     correct  |-> correct ])
             isLastRound     == quiz.roundNumber > quiz.totalRounds
             nextRoundNumber == quiz.roundNumber + 1
             nextQuestion    == IF isLastRound
                                THEN quiz.currentQuestion
                                ELSE selectRandomNote(quiz.activeNotes, random)
             newState ==
                 [ s EXCEPT !.quiz =
                       Some([ quiz EXCEPT
                                !.currentQuestion = nextQuestion,
                                !.roundNumber = IF isLastRound THEN @ ELSE nextRoundNumber,
                                !.results     = newResults,
                                !.isComplete  = isLastRound ]) ]
         IN  [ state       |-> newState,
               correct     |-> correct,
               correctNote |-> correctNote,
               status      |-> IF isLastRound THEN "complete" ELSE "continue" ]

\* variant: the record is built after the round and the question moved on
answerQuiz_recordsNext(s, noteTapped, random) ==
    IF s.phase # PHASES.QUIZ
    THEN Throw("Cannot answer quiz in phase", s.phase)
    ELSE LET quiz        == Get(s.quiz)
             correct     == noteTapped = quiz.currentQuestion
             correctNote == quiz.currentQuestion
             isLastRound     == quiz.roundNumber >= quiz.totalRounds
             nextRoundNumber == quiz.roundNumber + 1
             nextQuestion    == IF isLastRound
                                THEN quiz.currentQuestion
                                ELSE selectRandomNote(quiz.activeNotes, random)
             newResults  == Append(quiz.results,
                                   [ round    |-> IF isLastRound THEN quiz.roundNumber
                                                  ELSE nextRoundNumber,
                                     question |-> nextQuestion,
                                     answer   |-> noteTapped,
                                     correct  |-> correct ])
             newState ==
                 [ s EXCEPT !.quiz =
                       Some([ quiz EXCEPT
                                !.currentQuestion = nextQuestion,
                                !.roundNumber = IF isLastRound THEN @ ELSE nextRoundNumber,
                                !.results     = newResults,
                                !.isComplete  = isLastRound ]) ]
         IN  [ state       |-> newState,
               correct     |-> correct,
               correctNote |-> correctNote,
               status      |-> IF isLastRound THEN "complete" ELSE "continue" ]

\* random is the draw of selectRandomNote's Math.random(), read only when
\* the round is not the last
answerQuiz(s, noteTapped, random) ==
    IF s.phase # PHASES.QUIZ
    THEN Throw("Cannot answer quiz in phase", s.phase)
    ELSE LET quiz        == Get(s.quiz)
             correct     == noteTapped = quiz.currentQuestion
             correctNote == quiz.currentQuestion
             newResults  == Append(quiz.results,
                                   [ round    |-> quiz.roundNumber,
                                     question |-> quiz.currentQuestion,
                                     answer   |-> noteTapped,
                                     correct  |-> correct ])
             isLastRound     == quiz.roundNumber >= quiz.totalRounds
             nextRoundNumber == quiz.roundNumber + 1
             nextQuestion    == IF isLastRound
                                THEN quiz.currentQuestion
                                ELSE selectRandomNote(quiz.activeNotes, random)
             newState ==
                 [ s EXCEPT !.quiz =
                       Some([ quiz EXCEPT
                                !.currentQuestion = nextQuestion,
                                !.roundNumber = IF isLastRound THEN @ ELSE nextRoundNumber,
                                !.results     = newResults,
                                !.isComplete  = isLastRound ]) ]
         IN  [ state       |-> newState,
               correct     |-> correct,
               correctNote |-> correctNote,
               status      |-> IF isLastRound THEN "complete" ELSE "continue" ]

getCurrentQuizQuestion(s) ==
    IF s.phase # PHASES.QUIZ \/ s.quiz = Null
    THEN NULL
    ELSE Get(s.quiz).currentQuestion

\* variant: every record is counted as correct
startResultPhase_countsAll(s) ==
    LET quizResults == IF s.quiz = Null THEN <<>> ELSE Get(s.quiz).results
        totalCount  == Len(quizResults)
    IN  [ s EXCEPT !.phase = PHASES.RESULT,
                   !.result =
                       Some([ correctCount    |-> totalCount,
                              totalCount      |-> totalCount,
                              accuracy        |-> IF totalCount > 0
                                                  THEN [num |-> totalCount,
                                                        den |-> totalCount]
                                                  ELSE [num |-> 0, den |-> 1],
                              results         |-> quizResults,
                              exploreTapCount |-> IF s.explore = Null THEN 0
                                                  ELSE Get(s.explore).tapCount ]) ]

\* accuracy is an exact fraction; state.quiz?.results || [] and
\* state.explore?.tapCount || 0 read a missing payload as empty
startResultPhase(s) ==
    LET quizResults  == IF s.quiz = Null THEN <<>> ELSE Get(s.quiz).results
        correctCount == Cardinality({ i \in 1..Len(quizResults) : quizResults[i].correct })
        totalCount   == Len(quizResults)
    IN  [ s EXCEPT !.phase = PHASES.RESULT,
                   !.result =
                       Some([ correctCount    |-> correctCount,
                              totalCount      |-> totalCount,
                              accuracy        |-> IF totalCount > 0
                                                  THEN [num |-> correctCount,
                                                        den |-> totalCount]
                                                  ELSE [num |-> 0, den |-> 1],
                              results         |-> quizResults,
                              exploreTapCount |-> IF s.explore = Null THEN 0
                                                  ELSE Get(s.explore).tapCount ]) ]

getResults(s) ==
    IF s.phase # PHASES.RESULT \/ s.result = Null
    THEN Null
    ELSE s.result

\* variant: the result phase is never complete
isPhaseComplete_resultPending(s) ==
    CASE s.phase = PHASES.LISTEN  -> IF s.listen = Null THEN FALSE
                                     ELSE Get(s.listen).isComplete
      [] s.phase = PHASES.EXPLORE -> IF s.explore = Null THEN FALSE
                                     ELSE Get(s.explore).isComplete
      [] s.phase = PHASES.QUIZ    -> IF s.quiz = Null THEN FALSE
                                     ELSE Get(s.quiz).isComplete
      [] OTHER                    -> FALSE

isPhaseComplete(s) ==
    CASE s.phase = PHASES.LISTEN  -> IF s.listen = Null THEN FALSE
                                     ELSE Get(s.listen).isComplete
      [] s.phase = PHASES.EXPLORE -> IF s.explore = Null THEN FALSE
                                     ELSE Get(s.explore).isComplete
      [] s.phase = PHASES.QUIZ    -> IF s.quiz = Null THEN FALSE
                                     ELSE Get(s.quiz).isComplete
      [] s.phase = PHASES.RESULT  -> TRUE
      [] OTHER                    -> FALSE

\* variant: the result phase is followed by itself
getNextPhase_noWrap(currentPhase) ==
    CASE currentPhase = PHASES.LISTEN  -> PHASES.EXPLORE
      [] currentPhase = PHASES.EXPLORE -> PHASES.QUIZ
      [] currentPhase = PHASES.QUIZ    -> PHASES.RESULT
      [] currentPhase = PHASES.RESULT  -> PHASES.RESULT
      [] OTHER                         -> PHASES.LISTEN

getNextPhase(currentPhase) ==
    CASE currentPhase = PHASES.LISTEN  -> PHASES.EXPLORE
      [] currentPhase = PHASES.EXPLORE -> PHASES.QUIZ
      [] currentPhase = PHASES.QUIZ    -> PHASES.RESULT
      [] currentPhase = PHASES.RESULT  -> PHASES.LISTEN
      [] OTHER                         -> PHASES.LISTEN

(* ---------------------------- StorageManager --------------------------- *)

\* the ways localStorage fails: not at all, on every access (private
\* browsing), on writes only (quota exceeded)
Faults == { "none", "denied", "quota" }

\* content of the key that is not JSON
Unparsable == [ text |-> "not valid json {{{" ]

\* JSON.stringify of a ProgressState: the JSON text of that value
JSON_stringify(value) == [ json |-> value ]

\* JSON.parse: throws a SyntaxError on text that is not JSON
JSON_parse(text) ==
    IF "json" \in DOMAIN text
    THEN [ threw |-> FALSE, value |-> Some(text.json) ]
    ELSE [ threw |-> TRUE, value |-> Null ]

\* localStorage.getItem(STORAGE_KEY): null for an absent key
getItem(store, f) ==
    IF f = "denied"
    THEN [ threw |-> TRUE, value |-> Null ]
    ELSE [ threw |-> FALSE, value |-> store ]

\* localStorage.setItem(STORAGE_KEY, text)
setItem(store, f, text) ==
    IF f # "none"
    THEN [ threw |-> TRUE, store |-> store ]
    ELSE [ threw |-> FALSE, store |-> Some(text) ]

\* localStorage.removeItem(STORAGE_KEY)
removeItem(store, f) ==
    IF f = "denied"
    THEN [ threw |-> TRUE, store |-> store ]
    ELSE [ threw |-> FALSE, store |-> Null ]

\* variant: the write is reported as done whether or not it threw
saveProgress_alwaysTrue(store, f, s) ==
    LET written == setItem(store, f, JSON_stringify(s))
    IN  [ ret |-> TRUE, store |-> written.store ]

\* the result and the store after the call
saveProgress(store, f, s) ==
    LET serialized == JSON_stringify(s)
        written    == setItem(store, f, serialized)
    IN  IF written.threw
        THEN [ ret |-> FALSE, store |-> store ]
        ELSE [ ret |-> TRUE, store |-> written.store ]

loadProgress(store, f) ==
    LET serialized == getItem(store, f)
    IN  IF serialized.threw THEN Null
        ELSE IF serialized.value = Null THEN Null
        ELSE LET parsed == JSON_parse(Get(serialized.value))
             IN  IF parsed.threw THEN Null ELSE parsed.value

resetProgress(store, f) ==
    LET removed == removeItem(store, f)
    IN  IF removed.threw
        THEN [ ret |-> FALSE, store |-> store ]
        ELSE [ ret |-> TRUE, store |-> removed.store ]

hasExistingProgress(store, f) ==
    LET serialized == getItem(store, f)
    IN  IF serialized.threw THEN FALSE ELSE serialized.value # Null

(* ------------------------- scripted histories -------------------------- *)

\* the test suite's loops: the same answer recorded n times in a row
RECURSIVE recordRun(_, _, _, _, _)
recordRun(s, note, instrument, wasCorrect, n) ==
    IF n = 0 THEN s
    ELSE recordRun(recordAnswer(s, note, instrument, wasCorrect),
                   note, instrument, wasCorrect, n - 1)

\* a full window of correct answers for one note on instruments j..last
RECURSIVE masterNote(_, _, _)
masterNote(s, note, j) ==
    IF j > Len(INSTRUMENTS) THEN s
    ELSE masterNote(recordRun(s, note, INSTRUMENTS[j], TRUE,
                              MASTERY_THRESHOLDS.rollingWindow), note, j + 1)

\* ... for the active notes n..last
RECURSIVE masterAll(_, _)
masterAll(s, n) ==
    IF n > Len(s.activeNotes) THEN s
    ELSE masterAll(masterNote(s, s.activeNotes[n], 1), n + 1)

\* master every active note, then promote; repeated `rounds` times
RECURSIVE grow(_, _)
grow(s, rounds) ==
    IF rounds = 0 THEN s
    ELSE grow(applyPromotion(masterAll(s, 1)), rounds - 1)

\* the states SpecCalls starts from: the curriculum grown to k notes, the
\* last note mastered or left as promoted, then `wrong` incorrect and `right`
\* correct answers on one instrument of the first or the last active note
drawnState(k, mastered, last, j, wrong, right) ==
    LET grown  == grow(createInitialState, k - 2)
        base   == IF mastered THEN masterAll(grown, 1) ELSE grown
        note   == IF last THEN base.activeNotes[Len(base.activeNotes)]
                  ELSE base.activeNotes[1]
    IN  recordRun(recordRun(base, note, INSTRUMENTS[j], FALSE, wrong),
                  note, INSTRUMENTS[j], TRUE, right)

(* ------------------------------ actions -------------------------------- *)

Attempts(s, note, instrument) ==
    IF HasProgress(s.noteProgress, note, instrument)
    THEN s.noteProgress[<<note, instrument>>].attempts
    ELSE 0

LastActive(s) == s.activeNotes[Len(s.activeNotes)]

FirstNote == NOTE_INTRODUCTION_ORDER[1]

\* a note that is never promoted: at most maxActiveNotes notes are active
\* and promotion takes the first inactive note of the order
NeverActive == NOTE_INTRODUCTION_ORDER[Len(NOTE_INTRODUCTION_ORDER)]

\* note arguments applyDemotion is explored with
DemoteArgs(s) == { FirstNote, LastActive(s), NeverActive }

\* steps counts the advance, tap and answer calls since the last start of a
\* phase; starts counts the phases started
PhaseIdle ==
    /\ phaseState = PhaseManager_createInitialState
    /\ steps = 0
    /\ starts = 0

\* an empty store that works
StorageIdle ==
    /\ localStorage = Null
    /\ fault = "none"
    /\ cleared = FALSE

\* no hook is mounted
HookIdle == hook = Null

\* no audio engine is constructed
AudioIdle == audio = Null

AppIdle == StorageIdle /\ HookIdle /\ AudioIdle

(* Spec: the tracker's life from createInitialState *)

Init ==
    /\ state = createInitialState
    /\ pre = createInitialState
    /\ op = [name |-> "createInitialState", note |-> NULL]
    /\ ret = NULL
    /\ answers = 0
    /\ recorded = <<>>
    /\ PhaseIdle
    /\ AppIdle

\* one answer for the newest note on an instrument in rotation
RecordAnswer ==
    \E j \in 1..Len(state.activeInstruments), wasCorrect \in BOOLEAN :
       LET note == LastActive(state) IN
       /\ answers < MaxAnswers
       /\ Attempts(state, note, state.activeInstruments[j]) < MaxAttempts
       /\ state' = recordAnswer(state, note, state.activeInstruments[j], wasCorrect)
       /\ pre' = state
       /\ op' = [name |-> "recordAnswer", note |-> note]
       /\ ret' = NULL
       /\ answers' = answers + 1
       /\ UNCHANGED <<recorded, phaseVars, appVars>>

\* a window of correct answers for an active note on an eligible instrument
RecordCorrectRun ==
    \E n \in 1..Len(state.activeNotes), j \in 1..Len(INSTRUMENTS) :
       LET note == state.activeNotes[n] IN
       /\ INSTRUMENTS[j] \in Range(getEligibleInstruments(state, note))
       /\ Attempts(state, note, INSTRUMENTS[j]) + MASTERY_THRESHOLDS.rollingWindow
             <= MaxAttempts
       /\ state' = recordRun(state, note, INSTRUMENTS[j], TRUE,
                             MASTERY_THRESHOLDS.rollingWindow)
       /\ pre' = state
       /\ op' = [name |-> "recordRun", note |-> note]
       /\ ret' = NULL
       /\ UNCHANGED <<answers, recorded, phaseVars, appVars>>

ApplyPromotion ==
    /\ state' = applyPromotion(state)
    /\ pre' = state
    /\ op' = [name |-> "applyPromotion", note |-> NULL]
    /\ ret' = NULL
    /\ UNCHANGED <<answers, recorded, phaseVars, appVars>>

ApplyDemotion ==
    \E note \in DemoteArgs(state) :
       /\ state' = applyDemotion(state, note)
       /\ pre' = state
       /\ op' = [name |-> "applyDemotion", note |-> note]
       /\ ret' = NULL
       /\ UNCHANGED <<answers, recorded, phaseVars, appVars>>

ApplyAdaptiveDifficulty ==
    /\ state' = applyAdaptiveDifficulty(state)
    /\ pre' = state
    /\ op' = [name |-> "applyAdaptiveDifficulty", note |-> NULL]
    /\ ret' = NULL
    /\ UNCHANGED <<answers, recorded, phaseVars, appVars>>

Next ==
    \/ RecordAnswer
    \/ RecordCorrectRun
    \/ ApplyPromotion
    \/ ApplyDemotion
    \/ ApplyAdaptiveDifficulty

Spec == Init /\ [][Next]_vars

(* SpecAdaptive: answers and applyAdaptiveDifficulty, as the hook calls them *)

NextAdaptive ==
    \/ RecordAnswer
    \/ RecordCorrectRun
    \/ ApplyAdaptiveDifficulty

SpecAdaptive == Init /\ [][NextAdaptive]_vars

(* SpecNotes: the tracker's life with addNextNote called directly *)

NoNoteTwice(s) ==
    \A i, j \in 1..Len(s.activeNotes) : s.activeNotes[i] = s.activeNotes[j] => i = j

AddNextNote ==
    /\ state' = addNextNote(state)
    /\ pre' = state
    /\ op' = [name |-> "addNextNote", note |-> NULL]
    /\ ret' = NULL
    /\ UNCHANGED <<answers, recorded, phaseVars, appVars>>

\* the fresh tracker, or both notes mastered on every instrument by
\* recordAnswer
InitNotes ==
    /\ state \in { createInitialState, masterAll(createInitialState, 1) }
    /\ pre = state
    /\ op = [name |-> "createInitialState", note |-> NULL]
    /\ ret = NULL
    /\ answers = 0
    /\ recorded = <<>>
    /\ PhaseIdle
    /\ AppIdle

\* the list of active notes is not changed further once it holds a note
\* twice
NextNotes ==
    \/ RecordAnswer
    \/ ApplyPromotion
    \/ NoNoteTwice(state) /\ ApplyDemotion
    \/ NoNoteTwice(state) /\ AddNextNote

SpecNotes == InitNotes /\ [][NextNotes]_vars

(* SpecCalls: one call of a tracker function on a drawn state *)

InitCalls ==
    \E k \in 2..MASTERY_THRESHOLDS.maxActiveNotes, mastered \in BOOLEAN,
       last \in BOOLEAN, j \in 1..Len(INSTRUMENTS),
       wrong \in 0..MaxWrong, right \in 0..MaxRight :
       /\ state = drawnState(k, mastered, last, j, wrong, right)
       /\ pre = state
       /\ op = [name |-> "drawn", note |-> NULL]
       /\ ret = NULL
       /\ answers = 0
       /\ recorded = <<>>
       /\ PhaseIdle
       /\ AppIdle

\* variant: the 40% branch draws from all instruments
selectQuizInstrument_allInstruments(s, note, first, second) ==
    LET eligible == getEligibleInstruments(s, note)
    IN  IF Len(eligible) = 1 THEN eligible[1]
        ELSE IF first * 10 < 6 * RandSteps THEN eligible[Len(eligible)]
        ELSE INSTRUMENTS[((second * Len(INSTRUMENTS)) \div RandSteps) + 1]

\* Math.random() < 0.6 picks the newest eligible instrument, otherwise
\* Math.floor(Math.random() * masteredInstruments.length) picks an earlier one
selectQuizInstrument(s, note, first, second) ==
    LET eligible == getEligibleInstruments(s, note)
        masteredInstruments == SubSeq(eligible, 1, Len(eligible) - 1)
    IN  IF Len(eligible) = 1 THEN eligible[1]
        ELSE IF first * 10 < 6 * RandSteps THEN eligible[Len(eligible)]
        ELSE masteredInstruments[((second * Len(masteredInstruments)) \div RandSteps) + 1]

CallCheckPromotion ==
    /\ op.name = "drawn"
    /\ ret' = checkPromotion(state)
    /\ pre' = state
    /\ op' = [name |-> "checkPromotion", note |-> NULL]
    /\ UNCHANGED <<state, answers, recorded, phaseVars, appVars>>

CallApplyPromotion ==
    /\ op.name = "drawn"
    /\ ApplyPromotion

CallCheckDemotion ==
    /\ op.name = "drawn"
    /\ ret' = checkDemotion(state)
    /\ pre' = state
    /\ op' = [name |-> "checkDemotion", note |-> NULL]
    /\ UNCHANGED <<state, answers, recorded, phaseVars, appVars>>

CallApplyDemotion ==
    /\ op.name = "drawn"
    /\ \E note \in Range(state.activeNotes) \cup {NeverActive} :
          /\ state' = applyDemotion(state, note)
          /\ pre' = state
          /\ op' = [name |-> "applyDemotion", note |-> note]
          /\ ret' = NULL
          /\ UNCHANGED <<answers, recorded, phaseVars, appVars>>

CallApplyAdaptiveDifficulty ==
    /\ op.name = "drawn"
    /\ ApplyAdaptiveDifficulty

CallGetEligibleInstruments ==
    /\ op.name = "drawn"
    /\ \E note \in { state.activeNotes[1], LastActive(state), NeverActive } :
          /\ ret' = getEligibleInstruments(state, note)
          /\ pre' = state
          /\ op' = [name |-> "getEligibleInstruments", note |-> note]
          /\ UNCHANGED <<state, answers, recorded, phaseVars, appVars>>

\* activeInstruments lists taken from the fixed order, first instrument
\* included
Rotations ==
    { SubSeq(INSTRUMENTS, 1, n) : n \in 1..Len(INSTRUMENTS) }
       \cup { << INSTRUMENTS[1], INSTRUMENTS[Len(INSTRUMENTS)] >> }

\* both checks of applyAdaptiveDifficulty on the state with a given rotation
CallBothChecks ==
    /\ op.name = "drawn"
    /\ \E instruments \in Rotations :
          LET s == [ state EXCEPT !.activeInstruments = instruments ]
          IN  /\ ret' = [ promotion |-> checkPromotion(s), demotion |-> checkDemotion(s) ]
              /\ pre' = s
              /\ op' = [name |-> "checkPromotion, checkDemotion", note |-> NULL]
              /\ UNCHANGED <<state, answers, recorded, phaseVars, appVars>>

\* both values of Math.random(), an active note or one that never was
CallSelectQuizInstrument ==
    /\ op.name = "drawn"
    /\ \E note \in { state.activeNotes[1], LastActive(state), NeverActive },
          first \in RandomDraws, second \in RandomDraws :
          /\ ret' = selectQuizInstrument(state, note, first, second)
          /\ pre' = state
          /\ op' = [name |-> "selectQuizInstrument", note |-> note]
          /\ UNCHANGED <<state, answers, recorded, phaseVars, appVars>>

\* any instrument, an active note or one that never was
CallRecordAnswer ==
    /\ op.name = "drawn"
    /\ \E note \in { state.activeNotes[1], LastActive(state), NeverActive },
          instrument \in Range(INSTRUMENTS), wasCorrect \in BOOLEAN :
          /\ state' = recordAnswer(state, note, instrument, wasCorrect)
          /\ pre' = state
          /\ op' = [name |-> "recordAnswer", note |-> note,
                    instrument |-> instrument, wasCorrect |-> wasCorrect]
          /\ ret' = NULL
          /\ UNCHANGED <<answers, recorded, phaseVars, appVars>>

NextCalls ==
    \/ CallCheckPromotion
    \/ CallRecordAnswer
    \/ CallApplyPromotion
    \/ CallCheckDemotion
    \/ CallApplyDemotion
    \/ CallApplyAdaptiveDifficulty
    \/ CallGetEligibleInstruments
    \/ CallSelectQuizInstrument
    \/ CallBothChecks

SpecCalls == InitCalls /\ [][NextCalls]_vars

(* SpecSelect: weighted selection on a drawn state *)

\* the test suite overrides activeNotes with an empty or a one-note list
InitSelect ==
    \E k \in 2..MASTERY_THRESHOLDS.maxActiveNotes, mastered \in BOOLEAN,
       last \in BOOLEAN, j \in 1..Len(INSTRUMENTS),
       wrong \in 0..MaxWrong, right \in 0..MaxRight :
    \E kept \in {0, 1, k} :
       /\ state = [ drawnState(k, mastered, last, j, wrong, right)
                      EXCEPT !.activeNotes = SubSeq(@, 1, kept) ]
       /\ pre = state
       /\ op = [name |-> "drawn", note |-> NULL]
       /\ ret = NULL
       /\ answers = 0
       /\ recorded = <<>>
       /\ PhaseIdle
       /\ AppIdle

CallGetWeightedNoteSelection ==
    \E j \in 1..Len(INSTRUMENTS), draw \in 0..RandSteps, excess \in {0, 1} :
       /\ op.name = "drawn"
       /\ ret' = getWeightedNoteSelection(state, INSTRUMENTS[j], draw, excess)
       /\ pre' = state
       /\ op' = [name |-> "getWeightedNoteSelection", note |-> NULL,
                 draw |-> draw, excess |-> excess]
       /\ UNCHANGED <<state, answers, recorded, phaseVars, appVars>>

\* Math.random() * totalWeight just above the weights of the notes before
\* position i (in units of 1 / (WeightScale * RandSteps))
shareDraw(s, instrument, i) ==
    (SumWeights(s, instrument, 1) - SumWeights(s, instrument, i)) * RandSteps + 1

\* the call with a draw inside the share of the note at position share
CallSelectInShare ==
    \E j \in 1..Len(INSTRUMENTS), share \in 1..Len(state.activeNotes) :
       /\ op.name = "drawn"
       /\ Len(state.activeNotes) >= 2
       /\ ret' = getWeightedNoteSelection(state, INSTRUMENTS[j], 0,
                                          shareDraw(state, INSTRUMENTS[j], share))
       /\ pre' = state
       /\ op' = [name |-> "getWeightedNoteSelection", note |-> NULL,
                 draw |-> 0, excess |-> shareDraw(state, INSTRUMENTS[j], share)]
       /\ UNCHANGED <<state, answers, recorded, phaseVars, appVars>>

NextSelect ==
    \/ CallGetWeightedNoteSelection
    \/ CallSelectInShare

SpecSelect == InitSelect /\ [][NextSelect]_vars

(* SpecRecord: the answers of one (note, instrument) pair *)

RecordedNote == NOTE_INTRODUCTION_ORDER[1]
RecordedInstrument == INSTRUMENTS[1]

Recorded(s) == s.noteProgress[<<RecordedNote, RecordedInstrument>>]

RecordOne ==
    \E wasCorrect \in BOOLEAN :
       /\ Recorded(state).attempts < MaxRecorded
       /\ state' = recordAnswer(state, RecordedNote, RecordedInstrument, wasCorrect)
       /\ pre' = state
       /\ op' = [name |-> "recordAnswer", note |-> RecordedNote]
       /\ ret' = NULL
       /\ recorded' = Append(recorded, wasCorrect)
       /\ UNCHANGED <<answers, phaseVars, appVars>>

CallIsNoteMastered ==
    /\ ret' = isNoteMastered(Recorded(state))
    /\ pre' = state
    /\ op' = [name |-> "isNoteMastered", note |-> RecordedNote]
    /\ UNCHANGED <<state, answers, recorded, phaseVars, appVars>>

NextRecord ==
    \/ RecordOne
    \/ CallIsNoteMastered

SpecRecord == Init /\ [][NextRecord]_vars

(* SpecPhase: the phase state machine from its initial state *)

\* activeNotes arguments: absent, empty, or the first notes of the
\* introduction order
NoteArgs(lengths) ==
    { Null, Some(<<>>) }
       \cup { Some(SubSeq(NOTE_INTRODUCTION_ORDER, 1, n)) : n \in lengths }

\* the draws of Math.random() when it is called, one value when it is not
Draws(called) == IF called THEN RandomDraws ELSE {0}

\* the notes tapped: the two notes of the initial state
TappedNotes == Range(createInitialState.activeNotes)

\* the value of Date.now(): the start time is recorded and never read by
\* the phase functions
Timestamps == { 1000 }

\* maxTaps arguments: the default and the test suite's custom value
MaxTapsArgs == { DefaultMaxTaps, DefaultMaxTaps \div 2 }

\* a start function was called: its result is the new state unless it threw
Started(result) ==
    /\ ret' = result
    /\ IF Threw(result)
       THEN UNCHANGED <<phaseState, steps, starts>>
       ELSE /\ phaseState' = result
            /\ steps' = 0
            /\ starts' = starts + 1
    /\ UNCHANGED <<state, pre, answers, recorded, appVars>>

\* a step function was called: result.state is the new state unless it threw
Stepped(result) ==
    /\ ret' = result
    /\ IF Threw(result)
       THEN UNCHANGED <<phaseState, steps>>
       ELSE /\ phaseState' = result.state
            /\ steps' = steps + 1
    /\ UNCHANGED <<state, pre, answers, recorded, starts, appVars>>

StartListenPhase ==
    \E activeNotes \in NoteArgs({1, 2, 3}) :
       /\ starts < MaxStarts
       /\ op' = [name |-> "startListenPhase", note |-> NULL,
                 activeNotes |-> activeNotes]
       /\ Started(startListenPhase(phaseState, activeNotes))

\* the sequence is advanced up to MaxExtra times after it is complete
AdvanceListenNote ==
    /\ phaseState.phase = PHASES.LISTEN
          => steps < Len(Get(phaseState.listen).activeNotes) + MaxExtra
    /\ op' = [name |-> "advanceListenNote", note |-> NULL]
    /\ Stepped(advanceListenNote(phaseState))

StartExplorePhase ==
    \E now \in Timestamps :
       /\ starts < MaxStarts
       /\ op' = [name |-> "startExplorePhase", note |-> NULL]
       /\ Started(startExplorePhase(phaseState, now))

\* taps go on up to MaxExtra times after the default maxTaps is reached
RecordExploreTap ==
    \E maxTaps \in MaxTapsArgs :
       /\ phaseState.phase = PHASES.EXPLORE => steps < DefaultMaxTaps + MaxExtra
       /\ op' = [name |-> "recordExploreTap", note |-> NULL, maxTaps |-> maxTaps]
       /\ Stepped(recordExploreTap(phaseState, maxTaps))

StartQuizPhase ==
    \E activeNotes \in NoteArgs({1, 2}), totalRounds \in 0..MaxRounds :
    \E random \in Draws(~Threw(startQuizPhase(phaseState, activeNotes, totalRounds, 0))) :
       /\ starts < MaxStarts
       /\ op' = [name |-> "startQuizPhase", note |-> NULL,
                 activeNotes |-> activeNotes, totalRounds |-> totalRounds]
       /\ Started(startQuizPhase(phaseState, activeNotes, totalRounds, random))

\* the quiz is answered up to MaxExtra times after it is complete
AnswerQuiz ==
    \E noteTapped \in TappedNotes :
    \E random \in Draws(LET result == answerQuiz(phaseState, noteTapped, 0)
                          IN  ~Threw(result) /\ result.status = "continue") :
       /\ phaseState.phase = PHASES.QUIZ
             => steps < Get(phaseState.quiz).totalRounds + MaxExtra
       /\ op' = [name |-> "answerQuiz", note |-> noteTapped]
       /\ Stepped(answerQuiz(phaseState, noteTapped, random))

StartResultPhase ==
    /\ starts < MaxStarts
    /\ op' = [name |-> "startResultPhase", note |-> NULL]
    /\ Started(startResultPhase(phaseState))

\* the listen and explore phases in any order
NextWarmup ==
    \/ StartListenPhase
    \/ AdvanceListenNote
    \/ StartExplorePhase
    \/ RecordExploreTap

SpecWarmup == Init /\ [][NextWarmup]_vars

\* the quiz phase
NextQuiz ==
    \/ StartQuizPhase
    \/ AnswerQuiz

SpecQuiz == Init /\ [][NextQuiz]_vars

\* all four phases in any order, each followed for MaxDepth steps
NextPhase ==
    \/ StartListenPhase
    \/ AdvanceListenNote /\ steps' <= MaxDepth
    \/ StartExplorePhase
    \/ RecordExploreTap /\ steps' <= MaxDepth
    \/ StartQuizPhase
    \/ AnswerQuiz /\ steps' <= MaxDepth
    \/ StartResultPhase

SpecPhase == Init /\ [][NextPhase]_vars

(* SpecSession: one session, its phases started in their order *)

\* the notes and the rounds of the full game flow
SessionNotes == Some(<< "C4", "G4" >>)
SessionRounds == 3

\* the place of a phase in the order LISTEN, EXPLORE, QUIZ, RESULT; the
\* uninitialized state comes before the first
PhaseOrder(phase) ==
    CASE phase = PHASES.LISTEN  -> 1
      [] phase = PHASES.EXPLORE -> 2
      [] phase = PHASES.QUIZ    -> 3
      [] phase = PHASES.RESULT  -> 4
      [] OTHER                  -> 0

\* a phase is started at any moment before a later one has been started
SessionListen ==
    /\ PhaseOrder(phaseState.phase) < PhaseOrder(PHASES.LISTEN)
    /\ op' = [name |-> "startListenPhase", note |-> NULL]
    /\ Started(startListenPhase(phaseState, SessionNotes))

\* while (!isPhaseComplete(state)) advanceListenNote(state)
SessionAdvance ==
    /\ phaseState.phase = PHASES.LISTEN
    /\ ~isPhaseComplete(phaseState)
    /\ op' = [name |-> "advanceListenNote", note |-> NULL]
    /\ Stepped(advanceListenNote(phaseState))

SessionExplore ==
    \E now \in Timestamps :
       /\ PhaseOrder(phaseState.phase) < PhaseOrder(PHASES.EXPLORE)
       /\ op' = [name |-> "startExplorePhase", note |-> NULL]
       /\ Started(startExplorePhase(phaseState, now))

SessionTap ==
    /\ phaseState.phase = PHASES.EXPLORE
    /\ ~isPhaseComplete(phaseState)
    /\ op' = [name |-> "recordExploreTap", note |-> NULL]
    /\ Stepped(recordExploreTap(phaseState, DefaultMaxTaps))

SessionQuiz ==
    \E random \in RandomDraws :
       /\ PhaseOrder(phaseState.phase) < PhaseOrder(PHASES.QUIZ)
       /\ op' = [name |-> "startQuizPhase", note |-> NULL]
       /\ Started(startQuizPhase(phaseState, SessionNotes, SessionRounds, random))

\* the learner taps the presented question or the other note
SessionAnswer ==
    \E noteTapped \in Range(Get(SessionNotes)) :
    \E random \in Draws(LET result == answerQuiz(phaseState, noteTapped, 0)
                          IN  ~Threw(result) /\ result.status = "continue") :
       /\ phaseState.phase = PHASES.QUIZ
       /\ ~isPhaseComplete(phaseState)
       /\ op' = [name |-> "answerQuiz", note |-> noteTapped]
       /\ Stepped(answerQuiz(phaseState, noteTapped, random))

SessionResult ==
    /\ PhaseOrder(phaseState.phase) < PhaseOrder(PHASES.RESULT)
    /\ op' = [name |-> "startResultPhase", note |-> NULL]
    /\ Started(startResultPhase(phaseState))

NextSession ==
    \/ SessionListen
    \/ SessionAdvance
    \/ SessionExplore
    \/ SessionTap
    \/ SessionQuiz
    \/ SessionAnswer
    \/ SessionResult

SpecSession == Init /\ [][NextSession]_vars

(* SpecStorage: the StorageManager over a store that may fail *)

\* the states saved: a fresh one and those with one answer recorded
SavedStates ==
    { createInitialState }
       \cup { recordAnswer(createInitialState, FirstNote, INSTRUMENTS[1], wasCorrect) :
                 wasCorrect \in BOOLEAN }

\* the key is absent or holds text left there that is not JSON
InitStorage ==
    /\ state = createInitialState
    /\ pre = createInitialState
    /\ op = [name |-> "init", note |-> NULL]
    /\ ret = [shouldPromote |-> FALSE, nextNote |-> NULL]
    /\ answers = 0
    /\ recorded = <<>>
    /\ PhaseIdle
    /\ localStorage \in { Null, Some(Unparsable) }
    /\ fault = "none"
    /\ cleared = FALSE
    /\ HookIdle
    /\ AudioIdle

\* a call of the StorageManager leaves both engines alone
StorageCall ==
    UNCHANGED <<state, pre, answers, recorded, phaseVars, hook, audio>>

SaveProgress ==
    \E s \in SavedStates :
       LET result == saveProgress(localStorage, fault, s)
       IN  /\ op' = [name |-> "saveProgress", note |-> NULL]
           /\ ret' = result.ret
           /\ localStorage' = result.store
           /\ cleared' = (cleared /\ ~result.ret)
           /\ UNCHANGED fault
           /\ StorageCall

LoadProgress ==
    /\ op' = [name |-> "loadProgress", note |-> NULL]
    /\ ret' = loadProgress(localStorage, fault)
    /\ UNCHANGED storageVars
    /\ StorageCall

ResetProgress ==
    LET result == resetProgress(localStorage, fault)
    IN  /\ op' = [name |-> "resetProgress", note |-> NULL]
        /\ ret' = result.ret
        /\ localStorage' = result.store
        /\ cleared' = (cleared \/ result.ret)
        /\ UNCHANGED fault
        /\ StorageCall

HasExistingProgress ==
    /\ op' = [name |-> "hasExistingProgress", note |-> NULL]
    /\ ret' = hasExistingProgress(localStorage, fault)
    /\ UNCHANGED storageVars
    /\ StorageCall

\* the store starts or stops failing
StorageFault ==
    \E f \in Faults \ { fault } :
       /\ fault' = f
       /\ UNCHANGED <<localStorage, cleared, op, ret>>
       /\ StorageCall

NextStorage ==
    \/ SaveProgress
    \/ LoadProgress
    \/ ResetProgress
    \/ HasExistingProgress
    \/ StorageFault

SpecStorage == InitStorage /\ [][NextStorage]_vars


(* ------------------------------ useGamePhase --------------------------- *)

\* constants of the hook
EXPLORE_MAX_TAPS == 6
QUIZ_ROUNDS == 5

\* the questions the hook can present: getWeightedNoteSelection(progress,
\* 'piano') and selectQuizInstrument for that note, over all random outcomes
WeightedQuestions(s) ==
    LET notes == { getWeightedNoteSelection(s, INSTRUMENTS[1], draw, excess).note :
                     draw \in 0..RandSteps, excess \in {0, 1} }
    IN  UNION { { [ note       |-> note,
                    instrument |-> selectQuizInstrument(s, note, first, second) ] :
                    first \in RandomDraws, second \in RandomDraws } :
                note \in notes }

\* { ...prev, quiz: { ...prev.quiz, currentQuestion, currentInstrument } }
withQuestion(gameState, question) ==
    LET shown == [ currentQuestion   |-> question.note,
                   currentInstrument |-> question.instrument ]
    IN  [ gameState EXCEPT !.quiz =
            Some(IF gameState.quiz = Null THEN shown
                 ELSE shown @@ Get(gameState.quiz)) ]

\* gameState.quiz?.currentInstrument || 'piano'
quizInstrumentOf(gameState) ==
    IF gameState.quiz = Null THEN INSTRUMENTS[1]
    ELSE IF "currentInstrument" \in DOMAIN Get(gameState.quiz)
    THEN Get(gameState.quiz).currentInstrument
    ELSE INSTRUMENTS[1]

\* activeNotes.filter(note => getEligibleInstruments(progressState, note).length > 1)
contrastNotesOf(s) ==
    SelectSeq(s.activeNotes, LAMBDA note : Len(getEligibleInstruments(s, note)) > 1)

\* exploreInstrumentIndexRef.current = {}: every note reads as index 0
NoIndex == [ note \in Range(NOTE_INTRODUCTION_ORDER) |-> 0 ]

\* a pending setTimeout callback that is not kept in a ref: a step of the
\* contrast playback with its contrastIndex, or the feedback timer of a quiz
\* answer with the status and newState it closed over
ContrastTimeout(contrastIndex) ==
    [ kind |-> "contrast", contrastIndex |-> contrastIndex,
      status |-> NULL, newState |-> PhaseManager_createInitialState ]

FeedbackTimeout(status, newState) ==
    [ kind |-> "feedback", contrastIndex |-> 0,
      status |-> status, newState |-> newState ]

\* the question shown before any is chosen
NoQuestion == [ note |-> NULL, instrument |-> NULL ]

\* the hook after useState initialisation, before the mount effects; saved
\* is what loadProgress returned.  touched: setGameState was given a new
\* object since the last render.  The fields from played on are not state of
\* the hook: they record what the learner heard and what the last callback
\* did (played: the question last presented; heard: the note an explore tap
\* played; exploreTaps: taps per note since EXPLORE was entered; quizStarts:
\* startQuizPhase calls since the session began; adaptive, saved, answered:
\* the applyAdaptiveDifficulty calls, the saveProgress argument and the
\* recordAnswer arguments of the last callback; restarts: restart() calls)
useGamePhase(saved) ==
    LET progressState == IF saved = Null THEN createInitialState ELSE Get(saved)
    IN  [ progressState   |-> progressState,
          gameState       |-> startListenPhase(PhaseManager_createInitialState,
                                               Some(progressState.activeNotes)),
          touched                   |-> FALSE,
          prevPhaseRef              |-> NULL,
          prevPhaseForResultRef     |-> NULL,
          listenTimerRef            |-> FALSE,
          exploreTimerRef           |-> FALSE,
          contrastNotesRef          |-> <<>>,
          exploreInstrumentIndexRef |-> NoIndex,
          timeouts        |-> EmptyBag,
          played          |-> Null,
          heard           |-> Null,
          exploreTaps     |-> NoIndex,
          quizStarts      |-> 0,
          adaptive        |-> 0,
          saved           |-> Null,
          answered        |-> Null,
          restarts        |-> 0 ]

\* a callback starts with nothing done yet
callback(h) ==
    [ h EXCEPT !.adaptive = 0, !.saved = Null, !.answered = Null, !.heard = Null ]

\* gameState.quiz?.roundNumber, 0 when it is undefined
quizRoundOf(gameState) ==
    IF gameState.quiz = Null THEN 0
    ELSE IF "roundNumber" \in DOMAIN Get(gameState.quiz)
    THEN Get(gameState.quiz).roundNumber
    ELSE 0

\* which dependencies of the effects differ from the previous render
changedDeps(last, h) ==
    [ phase         |-> h.gameState.phase # last.gameState.phase,
      activeNotes   |-> h.progressState.activeNotes # last.progressState.activeNotes,
      gameState     |-> h.touched \/ h.gameState # last.gameState,
      progressState |-> h.progressState # last.progressState,
      quizRound     |-> quizRoundOf(h.gameState) # quizRoundOf(last.gameState) ]

mountDeps ==
    [ phase |-> TRUE, activeNotes |-> TRUE, gameState |-> TRUE,
      progressState |-> TRUE, quizRound |-> TRUE ]

\* the LISTEN effect: its cleanup clears the interval, its body arms it
\* again while the phase is LISTEN
listenEffect(changed, view, h) ==
    IF ~(changed.phase \/ changed.activeNotes \/ changed.gameState
         \/ changed.progressState)
    THEN h
    ELSE IF view.gameState.phase # PHASES.LISTEN
    THEN [ h EXCEPT !.listenTimerRef = FALSE ]
    ELSE [ h EXCEPT !.listenTimerRef = TRUE,
                    !.contrastNotesRef = contrastNotesOf(view.progressState) ]

\* the EXPLORE effect; wasExplore: the previous run of the effect armed the
\* timeout and returned the cleanup that clears it
exploreEffect(changed, wasExplore, view, h) ==
    IF ~(changed.phase \/ changed.activeNotes)
    THEN h
    ELSE LET cleaned == IF wasExplore THEN [ h EXCEPT !.exploreTimerRef = FALSE ] ELSE h
         IN  IF view.gameState.phase # PHASES.EXPLORE
             THEN cleaned
             ELSE [ cleaned EXCEPT !.exploreInstrumentIndexRef = NoIndex,
                                   !.exploreTimerRef = TRUE ]

\* the QUIZ effect; question is the outcome of getWeightedNoteSelection and
\* selectQuizInstrument on the rendered progress
quizEffect(changed, view, h, question) ==
    IF ~(changed.phase \/ changed.quizRound \/ changed.activeNotes
         \/ changed.progressState)
    THEN h
    ELSE IF view.gameState.phase # PHASES.QUIZ
    THEN [ h EXCEPT !.prevPhaseRef = view.gameState.phase ]
    ELSE IF h.prevPhaseRef # PHASES.QUIZ
    THEN [ h EXCEPT !.prevPhaseRef = PHASES.QUIZ,
                    !.gameState = withQuestion(@, question),
                    !.touched = TRUE,
                    !.played = Some(question) ]
    ELSE h

\* variant: the RESULT effect without the prevPhaseForResultRef guard
resultEffect_everyRun(changed, view, h) ==
    IF ~(changed.phase \/ changed.activeNotes)
    THEN h
    ELSE IF view.gameState.phase # PHASES.RESULT
    THEN [ h EXCEPT !.prevPhaseForResultRef = view.gameState.phase ]
    ELSE LET newProgress == applyAdaptiveDifficulty(h.progressState)
         IN  [ h EXCEPT !.prevPhaseForResultRef = PHASES.RESULT,
                        !.progressState = newProgress,
                        !.adaptive = @ + 1,
                        !.saved = Some(newProgress) ]

\* the RESULT effect
resultEffect(changed, view, h) ==
    IF ~(changed.phase \/ changed.activeNotes)
    THEN h
    ELSE IF view.gameState.phase # PHASES.RESULT
    THEN [ h EXCEPT !.prevPhaseForResultRef = view.gameState.phase ]
    ELSE IF h.prevPhaseForResultRef # PHASES.RESULT
    THEN LET newProgress == applyAdaptiveDifficulty(h.progressState)
         IN  [ h EXCEPT !.prevPhaseForResultRef = PHASES.RESULT,
                        !.progressState = newProgress,
                        !.adaptive = @ + 1,
                        !.saved = Some(newProgress) ]
    ELSE h

\* one render: the effects whose dependencies changed run in the order of
\* their declaration on the rendered state
runEffects(changed, wasExplore, view, question) ==
    resultEffect(changed, view,
        quizEffect(changed, view,
            exploreEffect(changed, wasExplore, view,
                listenEffect(changed, view,
                             [ view EXCEPT !.touched = FALSE ])),
            question))

\* the question drawn when a render enters the quiz
EntryQuestions(h) ==
    IF h.gameState.phase = PHASES.QUIZ /\ h.prevPhaseRef # PHASES.QUIZ
    THEN WeightedQuestions(h.progressState)
    ELSE { NoQuestion }

\* a callback left the hook in state h, last rendered as `last`: the render
\* and its effects, then the render the effects' own updates cause
render(last, h, question) ==
    LET first  == runEffects(changedDeps(last, h),
                             last.gameState.phase = PHASES.EXPLORE, h, question)
        second == runEffects(changedDeps(h, first),
                             h.gameState.phase = PHASES.EXPLORE, first, question)
        seen   == [ second EXCEPT !.touched = FALSE ]
    IN  IF seen.gameState.phase = PHASES.EXPLORE
           /\ last.gameState.phase # PHASES.EXPLORE
        THEN [ seen EXCEPT !.exploreTaps = NoIndex ]
        ELSE seen

\* the first render
mounted(saved) ==
    LET h == useGamePhase(saved)
    IN  [ runEffects(mountDeps, FALSE, h, NoQuestion) EXCEPT !.touched = FALSE ]

\* the setInterval callback of the LISTEN effect (newlyEligibleCombos is
\* empty: no bonus playback)
listenInterval(h) ==
    IF h.gameState.phase # PHASES.LISTEN THEN h
    ELSE LET result == advanceListenNote(h.gameState)
         IN  IF result.status # "complete"
             THEN [ h EXCEPT !.gameState = result.state, !.touched = TRUE ]
             ELSE IF Len(h.contrastNotesRef) > 0
             THEN \* playNextContrast() plays contrast note 0 and waits
                  [ h EXCEPT !.listenTimerRef = FALSE,
                             !.timeouts = @ (+) SetToBag({ContrastTimeout(1)}),
                             !.gameState = result.state,
                             !.touched = TRUE ]
             ELSE [ h EXCEPT !.listenTimerRef = FALSE,
                             !.gameState = startExplorePhase(result.state, Min(Timestamps)),
                             !.touched = TRUE ]

\* playNextContrast as a setTimeout callback
playNextContrast(h, timeout) ==
    LET pending == h.timeouts (-) SetToBag({timeout})
    IN  IF timeout.contrastIndex >= Len(h.contrastNotesRef)
        THEN [ h EXCEPT !.timeouts = pending,
                        !.gameState = startExplorePhase(@, Min(Timestamps)),
                        !.touched = TRUE ]
        ELSE [ h EXCEPT !.timeouts =
                   pending (+) SetToBag({ContrastTimeout(timeout.contrastIndex + 1)}) ]

\* the setTimeout callback of the EXPLORE effect
exploreTimeout(h, random) ==
    IF h.gameState.phase # PHASES.EXPLORE
    THEN [ h EXCEPT !.exploreTimerRef = FALSE ]
    ELSE [ h EXCEPT !.exploreTimerRef = FALSE,
                    !.gameState = startQuizPhase(@, Some(h.progressState.activeNotes),
                                                 QUIZ_ROUNDS, random),
                    !.touched = TRUE,
                    !.quizStarts = @ + 1 ]

\* variant: the index stops at the last eligible instrument
cycleInstrument_noWrap(h, note) ==
    LET eligibleInstruments == getEligibleInstruments(h.progressState, note)
        currentIndex        == h.exploreInstrumentIndexRef[note]
    IN  [ instrument |-> eligibleInstruments[currentIndex + 1],
          next       |-> IF currentIndex + 1 < Len(eligibleInstruments)
                         THEN currentIndex + 1 ELSE currentIndex ]

\* eligibleInstruments[currentIndex % eligibleInstruments.length] and the
\* index kept for the next tap (EXPLORE and RESULT branches of onCircleTap)
cycleInstrument(h, note) ==
    LET eligibleInstruments == getEligibleInstruments(h.progressState, note)
        currentIndex        == h.exploreInstrumentIndexRef[note]
    IN  [ instrument |-> eligibleInstruments[(currentIndex % Len(eligibleInstruments)) + 1],
          next       |-> (currentIndex + 1) % Len(eligibleInstruments) ]

onCircleTap_explore(h, note, random) ==
    LET cycle  == cycleInstrument(h, note)
        result == recordExploreTap(h.gameState, EXPLORE_MAX_TAPS)
        tapped == [ h EXCEPT !.exploreInstrumentIndexRef[note] = cycle.next,
                             !.heard = Some([note |-> note, instrument |-> cycle.instrument]),
                             !.exploreTaps[note] = @ + 1,
                             !.touched = TRUE ]
    IN  IF result.status = "complete"
        THEN [ tapped EXCEPT !.exploreTimerRef = FALSE,
                             !.gameState = startQuizPhase(result.state,
                                               Some(h.progressState.activeNotes),
                                               QUIZ_ROUNDS, random),
                             !.quizStarts = @ + 1 ]
        ELSE [ tapped EXCEPT !.gameState = result.state ]

\* the closure of the feedback timer reads newState only when status is
\* 'complete'
onCircleTap_quiz(h, note, random) ==
    LET quizInstrument == quizInstrumentOf(h.gameState)
        result         == answerQuiz(h.gameState, note, random)
    IN  [ h EXCEPT
            !.gameState = result.state,
            !.touched = TRUE,
            !.progressState = recordAnswer(@, result.correctNote, quizInstrument,
                                           result.correct),
            !.answered = Some([ note       |-> result.correctNote,
                                instrument |-> quizInstrument,
                                wasCorrect |-> result.correct,
                                played     |-> h.played ]),
            !.timeouts = @ (+) SetToBag({
                FeedbackTimeout(result.status,
                                IF result.status = "complete" THEN result.state
                                ELSE PhaseManager_createInitialState) }) ]

onCircleTap_result(h, note) ==
    [ h EXCEPT !.exploreInstrumentIndexRef[note] = cycleInstrument(h, note).next ]

onCircleTap(h, note, random) ==
    CASE h.gameState.phase = PHASES.EXPLORE -> onCircleTap_explore(h, note, random)
      [] h.gameState.phase = PHASES.QUIZ    -> onCircleTap_quiz(h, note, random)
      [] h.gameState.phase = PHASES.RESULT  -> onCircleTap_result(h, note)
      [] OTHER                              -> h

\* the feedback timer of a quiz answer and the QUESTION_PAUSE timer it
\* starts; question is the outcome of the weighted selection on the progress
\* at that moment
feedbackTimeout(h, timeout, question) ==
    LET pending == h.timeouts (-) SetToBag({timeout})
    IN  IF timeout.status = "complete"
        THEN [ h EXCEPT !.timeouts = pending,
                        !.gameState = startResultPhase(timeout.newState),
                        !.touched = TRUE ]
        ELSE [ h EXCEPT !.timeouts = pending,
                        !.gameState = withQuestion(@, question),
                        !.touched = TRUE,
                        !.played = Some(question) ]

\* clearAllTimers clears the timers kept in refs
clearAllTimers(h) ==
    [ h EXCEPT !.listenTimerRef = FALSE, !.exploreTimerRef = FALSE ]

\* variant: the new session listens to the notes of the old one
restart_sameNotes(h) ==
    [ clearAllTimers(h) EXCEPT
        !.gameState = startListenPhase(PhaseManager_createInitialState,
                                       Some(Get(h.gameState.listen).activeNotes)),
        !.touched = TRUE,
        !.quizStarts = 0,
        !.restarts = @ + 1 ]

restart(h) ==
    [ clearAllTimers(h) EXCEPT
        !.gameState = startListenPhase(PhaseManager_createInitialState,
                                       Some(h.progressState.activeNotes)),
        !.touched = TRUE,
        !.quizStarts = 0,
        !.restarts = @ + 1 ]

(* The useGamePhase hook from its first render.  A step is one callback   *)
(* (a tap, a timer, restart) together with the renders and the effects it *)
(* causes; timers fire in any order.                                      *)

\* a full window of wrong answers on the first instrument for the active
\* notes n..last
RECURSIVE forgetAll(_, _)
forgetAll(s, n) ==
    IF n > Len(s.activeNotes) THEN s
    ELSE forgetAll(recordRun(s, s.activeNotes[n], INSTRUMENTS[1], FALSE,
                             MASTERY_THRESHOLDS.rollingWindow), n + 1)

\* the progress found in the store at start-up: the first two notes mastered
\* on the piano only, the same on every instrument, and three notes forgotten
\* after the promotion of the third
SavedProgress ==
    { recordRun(recordRun(createInitialState, FirstNote, INSTRUMENTS[1], TRUE,
                          MASTERY_THRESHOLDS.rollingWindow),
                createInitialState.activeNotes[2], INSTRUMENTS[1], TRUE,
                MASTERY_THRESHOLDS.rollingWindow),
      masterAll(createInitialState, 1),
      forgetAll(grow(createInitialState, 1), 1) }

InitHook ==
    /\ state = createInitialState
    /\ pre = createInitialState
    /\ ret = NULL
    /\ answers = 0
    /\ recorded = <<>>
    /\ PhaseIdle
    /\ localStorage \in { Null } \cup { Some(JSON_stringify(s)) : s \in SavedProgress }
    /\ fault = "none"
    /\ cleared = FALSE
    /\ hook = mounted(loadProgress(localStorage, fault))
    /\ AudioIdle
    /\ op = [name |-> "useGamePhase", note |-> NULL]

\* the callback left the hook in state h: render, run the effects, and
\* store what the RESULT effect passed to saveProgress; answers counts the
\* answers given since the first render
Callback(name, note, h) ==
    \E question \in EntryQuestions(h) :
       /\ hook' = render(hook, h, question)
       /\ op' = [name |-> name, note |-> note]
       /\ localStorage' = IF hook'.saved = Null THEN localStorage
                          ELSE saveProgress(localStorage, fault, Get(hook'.saved)).store
       /\ answers' = IF hook'.answered = Null THEN answers ELSE answers + 1
       /\ UNCHANGED <<state, pre, ret, recorded, phaseVars, fault, cleared, audio>>

ListenInterval ==
    /\ hook.listenTimerRef
    /\ BagCardinality(listenInterval(hook).timeouts) <= MaxTimeouts
    /\ Callback("listenInterval", NULL, listenInterval(callback(hook)))

PlayNextContrast ==
    \E timeout \in BagToSet(hook.timeouts) :
       /\ timeout.kind = "contrast"
       /\ Callback("playNextContrast", NULL, playNextContrast(callback(hook), timeout))

\* EXPLORE_TIMEOUT (15000 ms) is longer than the contrast playback of
\* maxActiveNotes notes (LISTEN_NOTE_INTERVAL, 1500 ms, each), which began
\* before the timeout was set: every contrast timer is due earlier
ExploreTimeout ==
    \E random \in Draws(hook.gameState.phase = PHASES.EXPLORE) :
       /\ hook.exploreTimerRef
       /\ \A timeout \in BagToSet(hook.timeouts) : timeout.kind # "contrast"
       /\ Callback("exploreTimeout", NULL, exploreTimeout(callback(hook), random))

\* a tap on a circle that is shown, while the bound on the pending callbacks
\* allows the feedback timer of an answer
Tap(phase, note, random) ==
    /\ hook.gameState.phase = phase
    /\ note \in Range(hook.progressState.activeNotes)
    /\ BagCardinality(onCircleTap(hook, note, random).timeouts) <= MaxTimeouts
    /\ Callback("onCircleTap", note, onCircleTap(callback(hook), note, random))

ExploreTap ==
    \E note \in Range(NOTE_INTRODUCTION_ORDER),
       random \in IF hook.gameState.phase # PHASES.EXPLORE THEN {}
                  ELSE Draws(recordExploreTap(hook.gameState, EXPLORE_MAX_TAPS).status
                                 = "complete") :
       Tap(PHASES.EXPLORE, note, random)

\* one of the first MaxQuizTaps answers of a quiz
QuizTap ==
    \E note \in Range(NOTE_INTRODUCTION_ORDER), random \in RandomDraws :
       /\ hook.gameState.phase = PHASES.QUIZ
       /\ Len(Get(hook.gameState.quiz).results) < MaxQuizTaps
       /\ Tap(PHASES.QUIZ, note, random)

\* the learner who answers every question with the first circle, once its
\* feedback and the next question have been played
FirstNoteTap ==
    \E random \in RandomDraws :
       /\ answers < MaxSessionAnswers
       /\ hook.timeouts = EmptyBag
       /\ Tap(PHASES.QUIZ, hook.progressState.activeNotes[1], random)

\* free play on the summary screen
ResultTap ==
    \E note \in Range(NOTE_INTRODUCTION_ORDER) : Tap(PHASES.RESULT, note, 0)

FeedbackTimer ==
    \E timeout \in BagToSet(hook.timeouts) :
       /\ timeout.kind = "feedback"
       /\ \E question \in IF timeout.status = "complete" THEN { NoQuestion }
                          ELSE WeightedQuestions(hook.progressState) :
             Callback("feedbackTimeout", NULL,
                      feedbackTimeout(callback(hook), timeout, question))

\* Play Again is shown on the summary screen only
Restart ==
    /\ hook.gameState.phase = PHASES.RESULT
    /\ hook.restarts < MaxRestarts
    /\ Callback("restart", NULL, restart(callback(hook)))

(* SpecHookExplore: listening and exploring, up to the start of the quiz *)

NextHookExplore ==
    \/ ListenInterval
    \/ PlayNextContrast
    \/ ExploreTimeout
    \/ ExploreTap

SpecHookExplore == InitHook /\ [][NextHookExplore]_vars

(* SpecHookQuiz: the learner waits for the quiz and gives its first answers *)

NextHookQuiz ==
    \/ ListenInterval
    \/ PlayNextContrast
    \/ ExploreTimeout
    \/ QuizTap
    \/ FeedbackTimer

SpecHookQuiz == InitHook /\ [][NextHookQuiz]_vars

(* SpecHookSession: whole sessions of the learner who waits for the quiz  *)
(* and answers every question with the first circle                       *)

NextHookSession ==
    \/ ListenInterval
    \/ PlayNextContrast
    \/ ExploreTimeout
    \/ FirstNoteTap
    \/ FeedbackTimer
    \/ ResultTap
    \/ Restart

SpecHookSession == InitHook /\ [][NextHookSession]_vars


(* ---------------------- AudioEngine and AudioLoader --------------------- *)

ALL_INSTRUMENTS == << "piano", "violin", "guitar-acoustic" >>

\* the instruments with an entry in SYNTH_FALLBACKS
SYNTH_FALLBACKS == { "violin", "guitar-acoustic" }

\* the engine after its constructor and the AudioLoader before the first tap.
\* instrumentStatus holds get(name) || 'pending'; samplers are the
\* Tone.Sampler loads in flight, each with the loadAllInstruments call whose
\* loadInstrument awaits it; calls[k] is the Promise.all of the k-th call,
\* with the loadInstrument promises it still waits for; failed counts the
\* sample loads that ended in onerror
AudioEngine ==
    [ instruments        |-> {},
      loadingInstruments |-> {},
      instrumentStatus   |-> [ name \in Range(ALL_INSTRUMENTS) |-> "pending" ],
      initialized        |-> FALSE,
      loaderState        |-> "idle",
      error              |-> FALSE,
      samplers           |-> {},
      calls              |-> <<>>,
      failed             |-> 0 ]

getLoadingStatus(a) ==
    [ loaded |-> a.instruments, loading |-> a.loadingInstruments ]

getLoadingProgress(a) ==
    [ loaded      |-> Cardinality({ name \in Range(ALL_INSTRUMENTS) :
                        a.instrumentStatus[name] \in { "ready", "fallback" } }),
      total       |-> Len(ALL_INSTRUMENTS),
      instruments |-> a.instrumentStatus ]

\* loadInstrument up to its await: the promise of an instrument that is
\* loaded, loading or unsupported is resolved at once
loadInstrument(a, name, call) ==
    IF name \in a.instruments THEN a
    ELSE IF name \in a.loadingInstruments THEN a
    ELSE IF name \notin Range(ALL_INSTRUMENTS) THEN a
    ELSE [ a EXCEPT
             !.loadingInstruments = @ \cup { name },
             !.instrumentStatus   = [ @ EXCEPT ![name] = "loading" ],
             !.samplers           = @ \cup { [ name |-> name, call |-> call ] },
             !.calls              = [ @ EXCEPT ![call] =
                                        [ @ EXCEPT !.pending = @ \cup { name } ] ] ]

\* Promise.all over the promises of a call, and handleTap after its await:
\* setState('ready') when all are resolved, setError and setState('idle')
\* on the first rejection
promiseAll(a, call, rejected) ==
    IF a.calls[call].settled # "pending" THEN a
    ELSE IF rejected
    THEN [ a EXCEPT !.calls = [ @ EXCEPT ![call] = [ @ EXCEPT !.settled = "rejected" ] ],
                    !.error = TRUE,
                    !.loaderState = "idle" ]
    ELSE IF a.calls[call].pending = {}
    THEN [ a EXCEPT !.calls = [ @ EXCEPT ![call] = [ @ EXCEPT !.settled = "resolved" ] ],
                    !.loaderState = "ready" ]
    ELSE a

RECURSIVE loadFrom(_, _, _)
loadFrom(a, i, call) ==
    IF i > Len(ALL_INSTRUMENTS) THEN a
    ELSE loadFrom(loadInstrument(a, ALL_INSTRUMENTS[i], call), i + 1, call)

loadAllInstruments(a) ==
    LET call == Len(a.calls) + 1
        made == [ a EXCEPT !.calls = Append(@, [ pending |-> {}, settled |-> "pending" ]) ]
    IN  promiseAll(loadFrom(made, 1, call), call, FALSE)

\* a tap on the loader; Tone.start() resolves before any sample has loaded
handleTap(a) ==
    IF a.loaderState # "idle" THEN a
    ELSE loadAllInstruments([ a EXCEPT !.loaderState = "loading",
                                       !.error       = FALSE,
                                       !.initialized = TRUE ])

\* onload or onerror of a sampler: the rest of loadInstrument with its
\* finally block, then the Promise.all that awaits it
samplerSettled(a, sampler, loaded) ==
    LET name     == sampler.name
        fallback == ~loaded /\ name \in SYNTH_FALLBACKS
        thrown   == ~loaded /\ ~fallback
        done     == [ a EXCEPT
                        !.instruments        = IF thrown THEN @ ELSE @ \cup { name },
                        !.instrumentStatus   = [ @ EXCEPT ![name] =
                                                   IF loaded THEN "ready"
                                                   ELSE IF fallback THEN "fallback"
                                                   ELSE "error" ],
                        !.loadingInstruments = @ \ { name },
                        !.samplers           = @ \ { sampler },
                        !.failed             = IF loaded THEN @ ELSE @ + 1,
                        !.calls              = [ @ EXCEPT ![sampler.call] =
                                                   [ @ EXCEPT !.pending = @ \ { name } ] ] ]
    IN  promiseAll(done, sampler.call, thrown)

InitAudio ==
    /\ state = createInitialState
    /\ pre = createInitialState
    /\ op = [name |-> "AudioEngine", note |-> NULL]
    /\ ret = NULL
    /\ answers = 0
    /\ recorded = <<>>
    /\ PhaseIdle
    /\ StorageIdle
    /\ HookIdle
    /\ audio = AudioEngine

AudioCall ==
    UNCHANGED <<state, pre, ret, answers, recorded, phaseVars, storageVars, hook>>

\* the loader is on screen until its state is 'ready'
HandleTap ==
    /\ audio.loaderState # "ready"
    /\ audio' = handleTap(audio)
    /\ op' = [name |-> "handleTap", note |-> NULL]
    /\ AudioCall

SamplerLoaded ==
    \E sampler \in audio.samplers :
       /\ audio' = samplerSettled(audio, sampler, TRUE)
       /\ op' = [name |-> "onload", note |-> sampler.name]
       /\ AudioCall

SamplerFailed ==
    \E sampler \in audio.samplers :
       /\ audio.failed < MaxFailedLoads
       /\ audio' = samplerSettled(audio, sampler, FALSE)
       /\ op' = [name |-> "onerror", note |-> sampler.name]
       /\ AudioCall

NextAudio ==
    \/ HandleTap
    \/ SamplerLoaded
    \/ SamplerFailed

SpecAudio == InitAudio /\ [][NextAudio]_vars

(* ------------------------------- claims -------------------------------- *)

NoDuplicates(s) == \A i, j \in 1..Len(s) : s[i] = s[j] => i = j

CountTrue(results) == Cardinality({ i \in 1..Len(results) : results[i] })

\* mastery of a (note, instrument) pair read off the record: a missing
\* record and an empty window count as not mastered
MasteredOn(s, note, instrument) ==
    /\ <<note, instrument>> \in DOMAIN s.noteProgress
    /\ LET p == s.noteProgress[<<note, instrument>>]
       IN  /\ Len(p.recentResults) > 0
           /\ 10 * CountTrue(p.recentResults) >= 8 * Len(p.recentResults)
           /\ p.streak >= 3

\* instrument k of the fixed order is eligible iff all earlier ones are mastered
EligibleAt(s, note, k) == \A j \in 1..(k - 1) : MasteredOn(s, note, INSTRUMENTS[j])

FullyMastered(s) ==
    \A n \in 1..Len(s.activeNotes), k \in 1..Len(INSTRUMENTS) :
       EligibleAt(s, s.activeNotes[n], k) => MasteredOn(s, s.activeNotes[n], INSTRUMENTS[k])

\* C1: in every state reachable from createInitialState through recordAnswer,
\* applyPromotion, applyDemotion (any note argument) and
\* applyAdaptiveDifficulty, activeNotes has no duplicate and its length is at
\* least 2 and at most maxActiveNotes (6).
C1_ActiveNotesBounds ==
    /\ NoDuplicates(state.activeNotes)
    /\ Len(state.activeNotes) >= 2
    /\ Len(state.activeNotes) <= 6

\* a promotion attempted with six fully mastered active notes
C1_Witness ==
    /\ op.name = "applyPromotion"
    /\ Len(pre.activeNotes) = 6
    /\ FullyMastered(pre)
    /\ state = pre

\* the first note of the introduction order that is not active
FirstInactive(s) ==
    LET i == Min({ m \in 1..Len(NOTE_INTRODUCTION_ORDER) :
                     NOTE_INTRODUCTION_ORDER[m] \notin Range(s.activeNotes) })
    IN  NOTE_INTRODUCTION_ORDER[i]

SomeInactive(s) ==
    \E m \in 1..Len(NOTE_INTRODUCTION_ORDER) :
       NOTE_INTRODUCTION_ORDER[m] \notin Range(s.activeNotes)

TenCorrectOnPiano(s) ==
    /\ s.activeNotes = SubSeq(NOTE_INTRODUCTION_ORDER, 1, 2)
    /\ DOMAIN s.noteProgress = Range(s.activeNotes) \X {INSTRUMENTS[1]}
    /\ \A k \in DOMAIN s.noteProgress :
          s.noteProgress[k] =
             [ attempts |-> 10, correct |-> 10, streak |-> 10,
               recentResults |-> [i \in 1..10 |-> TRUE] ]

\* C3: from the initial two-note state, 10 correct answers on the first
\* instrument for each of the two active notes make checkPromotion return
\* shouldPromote = true with nextNote the third note of the introduction
\* order, and applyPromotion then yields 3 active notes and currentStage 2.
C3_PromotionAfterPiano ==
    TenCorrectOnPiano(state) =>
       /\ checkPromotion(state).shouldPromote
       /\ checkPromotion(state).nextNote = NOTE_INTRODUCTION_ORDER[3]
       /\ Len(applyPromotion(state).activeNotes) = 3
       /\ applyPromotion(state).currentStage = 2

\* accuracy of a pair below one half, read off the record
BelowHalf(s, note, instrument) ==
    /\ <<note, instrument>> \in DOMAIN s.noteProgress
    /\ LET p == s.noteProgress[<<note, instrument>>]
       IN  /\ Len(p.recentResults) >= 1
           /\ 2 * CountTrue(p.recentResults) < Len(p.recentResults)

SomeBelowHalf(s) ==
    \E note \in Range(s.activeNotes), instrument \in Range(s.activeInstruments) :
       BelowHalf(s, note, instrument)

\* C4: checkDemotion never returns shouldDemote = true while
\* activeNotes.length <= 2; with 3 or more active notes shouldDemote is true
\* iff some (active note, active instrument) pair with at least one recorded
\* result has rolling accuracy strictly below 0.5, and noteToRemove is then
\* the last element of activeNotes whichever note has the low accuracy.
C4_CheckDemotion ==
    op.name = "checkDemotion" =>
       /\ Len(state.activeNotes) <= 2 => ~ret.shouldDemote
       /\ Len(state.activeNotes) >= 3 => (ret.shouldDemote = SomeBelowHalf(state))
       /\ ret.shouldDemote => ret.noteToRemove = state.activeNotes[Len(state.activeNotes)]
       /\ ~ret.shouldDemote => ret.noteToRemove = NULL

\* the first note is at 4 of 10 on the piano, the last note is not below
\* one half, and the last note is the one to remove
C4_Witness ==
    /\ op.name = "checkDemotion"
    /\ ret.shouldDemote
    /\ Len(state.activeNotes) >= 3
    /\ BelowHalf(state, state.activeNotes[1], INSTRUMENTS[1])
    /\ CountTrue(state.noteProgress[<<state.activeNotes[1], INSTRUMENTS[1]>>].recentResults) = 4
    /\ ~BelowHalf(state, state.activeNotes[Len(state.activeNotes)], INSTRUMENTS[1])
    /\ ret.noteToRemove = state.activeNotes[Len(state.activeNotes)]

\* C5: applyAdaptiveDifficulty evaluates promotion first: if checkPromotion
\* fires the result is applyPromotion(state) and demotion is not evaluated;
\* otherwise, if checkDemotion fires, the result is
\* applyDemotion(state, noteToRemove); otherwise the input state is returned
\* unchanged.  One call changes the length of activeNotes by at most one.
C5_AdaptiveDifficulty ==
    op.name = "applyAdaptiveDifficulty" =>
       /\ checkPromotion(pre).shouldPromote => state = applyPromotion(pre)
       /\ (~checkPromotion(pre).shouldPromote /\ checkDemotion(pre).shouldDemote)
             => state = applyDemotion(pre, checkDemotion(pre).noteToRemove)
       /\ (~checkPromotion(pre).shouldPromote /\ ~checkDemotion(pre).shouldDemote)
             => state = pre
       /\ Len(state.activeNotes) - Len(pre.activeNotes) \in {-1, 0, 1}

\* the step promoted
C5_Witness ==
    /\ op.name = "applyAdaptiveDifficulty"
    /\ checkPromotion(pre).shouldPromote
    /\ Len(state.activeNotes) = Len(pre.activeNotes) + 1

\* the records of `before` are all in `after`, unchanged
KeepsRecords(before, after) ==
    \A k \in DOMAIN before.noteProgress :
       /\ k \in DOMAIN after.noteProgress
       /\ after.noteProgress[k] = before.noteProgress[k]

\* C6: demoting a note never alters any NoteProgress record, and when the
\* same note is later re-promoted by applyPromotion its recorded attempts,
\* correct, streak and recentResults are what they were before the demotion;
\* only missing active-instrument entries are created, zeroed.  Stated for
\* every step: a demotion leaves noteProgress as it is, recording an answer
\* for one note leaves the records of all other notes as they are, and a
\* promotion keeps every existing record and adds only zeroed records of
\* the promoted note for instruments in rotation.
C6_DemotionKeepsProgress ==
    /\ op.name = "applyDemotion" => state.noteProgress = pre.noteProgress
    /\ (op.name = "applyAdaptiveDifficulty"
          /\ Len(state.activeNotes) < Len(pre.activeNotes))
          => state.noteProgress = pre.noteProgress
    /\ op.name \in {"recordAnswer", "recordRun"} =>
          \A k \in DOMAIN pre.noteProgress :
             k[1] # op.note =>
                /\ k \in DOMAIN state.noteProgress
                /\ state.noteProgress[k] = pre.noteProgress[k]
    /\ op.name \in {"applyPromotion", "applyAdaptiveDifficulty"} =>
          /\ KeepsRecords(pre, state)
          /\ \A k \in (DOMAIN state.noteProgress) \ (DOMAIN pre.noteProgress) :
                /\ Len(state.activeNotes) = Len(pre.activeNotes) + 1
                /\ k[1] = state.activeNotes[Len(state.activeNotes)]
                /\ k[2] \in Range(state.activeInstruments)
                /\ state.noteProgress[k] =
                      [ attempts |-> 0, correct |-> 0, streak |-> 0,
                        recentResults |-> << >> ]

\* a note that has answers on record from an earlier stay in activeNotes
\* is promoted again
C6_Witness ==
    /\ op.name = "applyPromotion"
    /\ Len(state.activeNotes) = Len(pre.activeNotes) + 1
    /\ LET k == << state.activeNotes[Len(state.activeNotes)], INSTRUMENTS[1] >>
       IN  /\ k \in DOMAIN pre.noteProgress
           /\ pre.noteProgress[k].attempts > 0
           /\ state.noteProgress[k] = pre.noteProgress[k]

\* C7: applyPromotion returns its input unchanged whenever checkPromotion
\* does not fire; when it fires it appends exactly nextNote at the end of
\* activeNotes, increments currentStage by exactly 1, and leaves the
\* progress of all other notes, activeInstruments and sessionsPlayed
\* unchanged.
C7_ApplyPromotion ==
    op.name = "applyPromotion" =>
       LET check == checkPromotion(pre) IN
       /\ ~check.shouldPromote => state = pre
       /\ check.shouldPromote =>
             /\ state.activeNotes = pre.activeNotes \o << check.nextNote >>
             /\ state.currentStage = pre.currentStage + 1
             /\ state.activeInstruments = pre.activeInstruments
             /\ state.sessionsPlayed = pre.sessionsPlayed
             /\ \A k \in (DOMAIN pre.noteProgress) \cup (DOMAIN state.noteProgress) :
                   k[1] # check.nextNote =>
                      /\ k \in DOMAIN pre.noteProgress
                      /\ k \in DOMAIN state.noteProgress
                      /\ state.noteProgress[k] = pre.noteProgress[k]

\* a promotion from four to five notes
C7_Witness ==
    /\ op.name = "applyPromotion"
    /\ checkPromotion(pre).shouldPromote
    /\ Len(pre.activeNotes) = 4
    /\ Len(state.activeNotes) = 5
    /\ state.currentStage = pre.currentStage + 1

\* s without its i-th element
Without(s, i) == SubSeq(s, 1, i - 1) \o SubSeq(s, i + 1, Len(s))

\* C8: applyDemotion(state, note) returns its input unchanged when
\* activeNotes.length <= 2 or the note is not active; otherwise it removes
\* exactly that note from activeNotes (keeping the order of the rest),
\* leaves noteProgress unchanged, and sets currentStage to
\* max(1, currentStage - 1).
C8_ApplyDemotion ==
    op.name = "applyDemotion" =>
       IF Len(pre.activeNotes) <= 2 \/ op.note \notin Range(pre.activeNotes)
       THEN state = pre
       ELSE /\ \E i \in 1..Len(pre.activeNotes) :
                  /\ pre.activeNotes[i] = op.note
                  /\ state.activeNotes = Without(pre.activeNotes, i)
            /\ state.noteProgress = pre.noteProgress
            /\ state.currentStage =
                  (IF pre.currentStage - 1 >= 1 THEN pre.currentStage - 1 ELSE 1)

\* the second of four or more active notes is removed
C8_Witness ==
    /\ op.name = "applyDemotion"
    /\ Len(pre.activeNotes) >= 4
    /\ op.note = pre.activeNotes[2]
    /\ Len(state.activeNotes) = Len(pre.activeNotes) - 1
    /\ state.activeNotes[2] = pre.activeNotes[3]

\* C9: isNoteMastered(progress) is true iff the rolling accuracy over
\* recentResults is at least 0.8 (10 * trueCount >= 8 * length, accuracy 0
\* for an empty window) and streak >= 3; neither condition alone suffices.
C9_IsNoteMastered ==
    op.name = "isNoteMastered" =>
       LET p == Recorded(state)
           n == Len(p.recentResults)
           c == CountTrue(p.recentResults)
       IN  /\ ret = (n > 0 /\ 10 * c >= 8 * n /\ p.streak >= 3)
           /\ (n = 10 /\ c = 8 /\ p.streak = 3) => ret
           /\ (n = 10 /\ c = 7 /\ p.streak = 7) => ~ret
           /\ (n = 10 /\ c = 9 /\ p.streak = 1) => ~ret

\* 8 of 10 correct with a streak of exactly 3 is mastered
C9_Witness ==
    /\ op.name = "isNoteMastered"
    /\ ret = TRUE
    /\ Len(Recorded(state).recentResults) = 10
    /\ CountTrue(Recorded(state).recentResults) = 8
    /\ Recorded(state).streak = 3

\* C10: getEligibleInstruments returns a non-empty prefix of the fixed
\* instrument order that starts with the first instrument; instrument k+1 is
\* in the list iff the note is mastered on every instrument 1..k, so an
\* instrument is never eligible while an earlier one is unmastered, and a
\* note without a record on an instrument is not mastered there.
C10_EligibleInstruments ==
    op.name = "getEligibleInstruments" =>
       /\ Len(ret) >= 1
       /\ Len(ret) <= Len(INSTRUMENTS)
       /\ ret = SubSeq(INSTRUMENTS, 1, Len(ret))
       /\ \A k \in 1..(Len(INSTRUMENTS) - 1) :
             (k + 1 <= Len(ret)) =
                (\A j \in 1..k : MasteredOn(state, op.note, INSTRUMENTS[j]))

\* a note mastered on the second and third instrument but no longer on the
\* first is eligible on the first alone
C10_Witness ==
    /\ op.name = "getEligibleInstruments"
    /\ ~MasteredOn(state, op.note, INSTRUMENTS[1])
    /\ MasteredOn(state, op.note, INSTRUMENTS[2])
    /\ MasteredOn(state, op.note, INSTRUMENTS[3])
    /\ ret = << INSTRUMENTS[1] >>

\* the last k elements of a sequence
LastOf(s, k) == SubSeq(s, Len(s) - k + 1, Len(s))

\* the number of TRUE entries at the end of a sequence
TrailingCorrect(s) ==
    LET misses == { i \in 1..Len(s) : ~s[i] }
    IN  IF misses = {} THEN Len(s)
        ELSE Len(s) - (CHOOSE i \in misses : \A j \in misses : j <= i)

\* C11: after n recordAnswer calls for one (note, instrument) pair,
\* recentResults has length min(n, 10) and equals the last min(n, 10)
\* recorded results in call order, oldest first.
C11_RecentResults ==
    LET n == Len(recorded)
        recentResults == Recorded(state).recentResults
    IN  /\ Len(recentResults) = (IF n < 10 THEN n ELSE 10)
        /\ recentResults = LastOf(recorded, Len(recentResults))

\* eleven answers, the first correct and the second not: the window has
\* dropped the first
C11_Witness ==
    /\ op.name = "recordAnswer"
    /\ Len(recorded) = 11
    /\ recorded[1] /\ ~recorded[2]
    /\ Len(Recorded(state).recentResults) = 10

\* C12: streak is 0 right after an incorrect answer and one more than its
\* previous value after a correct one, so it always equals the number of
\* correct answers recorded since the last incorrect one, whatever the
\* 10-entry window holds.
C12_Streak ==
    /\ Recorded(state).streak = TrailingCorrect(recorded)
    /\ op.name = "recordAnswer" =>
          IF recorded[Len(recorded)]
          THEN Recorded(state).streak = Recorded(pre).streak + 1
          ELSE Recorded(state).streak = 0

\* eleven correct answers in a row: the streak is longer than the window
C12_Witness ==
    /\ op.name = "recordAnswer"
    /\ Len(recorded) = 11
    /\ Recorded(state).streak = 11
    /\ Len(Recorded(state).recentResults) = 10

\* C13: getWeightedNoteSelection signals the error 'No active notes to
\* select from' when activeNotes is empty, returns the sole note without
\* using randomness when there is exactly one, and otherwise returns a
\* member of activeNotes for every random draw and every progress state.
C13_WeightedSelection ==
    op.name = "getWeightedNoteSelection" =>
       /\ Len(state.activeNotes) = 0 =>
             /\ Threw(ret)
             /\ ret.error = "No active notes to select from"
       /\ Len(state.activeNotes) = 1 =>
             /\ ~Threw(ret)
             /\ ret.note = state.activeNotes[1]
             /\ ret.randomCalls = 0
       /\ Len(state.activeNotes) >= 2 =>
             /\ ~Threw(ret)
             /\ \E i \in 1..Len(state.activeNotes) : ret.note = state.activeNotes[i]

\* a draw that selects a note in the middle of three or more active notes
C13_Witness ==
    /\ op.name = "getWeightedNoteSelection"
    /\ Len(state.activeNotes) >= 3
    /\ ~Threw(ret)
    /\ ret.note = state.activeNotes[2]

\* the call that led to the current state was made and did not throw
Returned(name) == op.name = name /\ ~Threw(ret)

\* C14: after startQuizPhase(notes, N) with N >= 1 the quiz becomes complete
\* exactly on the N-th answerQuiz call and not before (status 'continue' for
\* answers 1..N-1, 'complete' for answer N), results then has length N, and
\* roundNumber never exceeds totalRounds: on the completing answer the round
\* is not advanced and the question is not replaced.
C14_QuizCompletion ==
    phaseState.phase = PHASES.QUIZ =>
       LET quiz == Get(phaseState.quiz)
           N    == quiz.totalRounds
       IN  /\ N >= 1
           /\ quiz.isComplete = (steps >= N)
           /\ quiz.roundNumber = (IF steps < N THEN steps + 1 ELSE N)
           /\ steps = N => Len(quiz.results) = N
           /\ Returned("answerQuiz") =>
                 /\ ret.status = (IF steps < N THEN "continue" ELSE "complete")
                 /\ steps = N => /\ quiz.roundNumber = quiz.results[N].round
                                 /\ quiz.currentQuestion = quiz.results[N].question

\* the third answer of a three-round quiz
C14_Witness ==
    /\ phaseState.phase = PHASES.QUIZ
    /\ Returned("answerQuiz")
    /\ Get(phaseState.quiz).totalRounds = 3
    /\ steps = 3
    /\ ret.status = "complete"
    /\ Len(Get(phaseState.quiz).results) = 3

\* C15: each answerQuiz call appends exactly one record {round, question,
\* answer, correct} where round and question are the roundNumber and
\* currentQuestion held before the call, answer is the tapped note and
\* correct is true iff the tapped note equals that question; the returned
\* correctNote is that pre-call question and earlier records are not
\* modified.
C15_AnswerRecord ==
    [][ (op'.name = "answerQuiz" /\ ~Threw(ret')) =>
           LET before == Get(phaseState.quiz)
               after  == Get(phaseState'.quiz)
           IN  /\ after.results =
                     Append(before.results,
                            [ round    |-> before.roundNumber,
                              question |-> before.currentQuestion,
                              answer   |-> op'.note,
                              correct  |-> (op'.note = before.currentQuestion) ])
               /\ ret'.correctNote = before.currentQuestion
               /\ ret'.correct = (op'.note = before.currentQuestion) ]_vars

\* a wrong answer recorded after a correct one, in a round that moved on to
\* another question
C15_Witness ==
    /\ Returned("answerQuiz")
    /\ ~ret.correct
    /\ LET quiz == Get(phaseState.quiz)
       IN  /\ Len(quiz.results) = 2
           /\ quiz.results[1].correct
           /\ quiz.results[2].round = 2
           /\ quiz.results[2].answer = op.note
           /\ quiz.currentQuestion # quiz.results[2].question

\* the payloads of a PhaseState that are populated
Populated(s) ==
    { name \in { "listen", "explore", "quiz", "result" } : s[name] # Null }

\* the payload that belongs to a phase
PayloadOf(phase) ==
    CASE phase = PHASES.LISTEN  -> "listen"
      [] phase = PHASES.EXPLORE -> "explore"
      [] phase = PHASES.QUIZ    -> "quiz"
      [] phase = PHASES.RESULT  -> "result"

C17_InvalidPhase ==
    [][ /\ (op'.name = "advanceListenNote" /\ phaseState.phase # PHASES.LISTEN)
           => (Threw(ret') /\ phaseState' = phaseState)
        /\ (op'.name = "recordExploreTap" /\ phaseState.phase # PHASES.EXPLORE)
           => (Threw(ret') /\ phaseState' = phaseState)
        /\ (op'.name = "answerQuiz" /\ phaseState.phase # PHASES.QUIZ)
           => (Threw(ret') /\ phaseState' = phaseState) ]_vars

\* advanceListenNote called in the explore phase that followed a listen phase
C17_Witness ==
    /\ op.name = "advanceListenNote"
    /\ Threw(ret)
    /\ ret.detail = PHASES.EXPLORE
    /\ phaseState.phase = PHASES.EXPLORE
    /\ phaseState.listen # Null

\* an activeNotes argument that is absent or empty
NoNotes(activeNotes) == activeNotes = Null \/ Len(Get(activeNotes)) = 0

\* C18: startListenPhase and startQuizPhase signal an error when the note
\* list is empty or absent, and startQuizPhase signals an error when
\* totalRounds < 1; on success startListenPhase yields phase LISTEN with
\* index 0 and complete = false, and startQuizPhase yields phase QUIZ with
\* roundNumber 1, empty results, complete = false and a currentQuestion that
\* is a member of the given notes.
C18_StartPhase ==
    /\ op.name = "startListenPhase" =>
          IF NoNotes(op.activeNotes)
          THEN Threw(ret)
          ELSE /\ ~Threw(ret)
               /\ phaseState = ret
               /\ phaseState.phase = PHASES.LISTEN
               /\ Get(phaseState.listen).currentIndex = 0
               /\ Get(phaseState.listen).isComplete = FALSE
    /\ op.name = "startQuizPhase" =>
          IF NoNotes(op.activeNotes) \/ op.totalRounds < 1
          THEN Threw(ret)
          ELSE /\ ~Threw(ret)
               /\ phaseState = ret
               /\ phaseState.phase = PHASES.QUIZ
               /\ LET quiz == Get(phaseState.quiz)
                  IN  /\ quiz.roundNumber = 1
                      /\ quiz.results = <<>>
                      /\ quiz.isComplete = FALSE
                      /\ \E i \in 1..Len(Get(op.activeNotes)) :
                            quiz.currentQuestion = Get(op.activeNotes)[i]

\* a quiz started over two notes whose first question is the second note
C18_Witness ==
    /\ Returned("startQuizPhase")
    /\ op.totalRounds = 1
    /\ Len(Get(op.activeNotes)) = 2
    /\ Get(phaseState.quiz).currentQuestion = Get(op.activeNotes)[2]

\* C19: for a listen phase started over n notes the index stays within
\* 0..n-1, so the current listen note is always defined; the first n-1
\* advances each increment the index and return 'playing', the n-th returns
\* 'complete', sets complete = true and leaves the index at n-1, and every
\* further advance keeps the phase complete with the index unchanged.
C19_ListenAdvance ==
    phaseState.phase = PHASES.LISTEN =>
       LET listen == Get(phaseState.listen)
           n      == Len(listen.activeNotes)
       IN  /\ listen.currentIndex >= 0
           /\ listen.currentIndex <= n - 1
           /\ \E i \in 1..n : getCurrentListenNote(phaseState) = listen.activeNotes[i]
           /\ steps <= n - 1 =>
                 /\ listen.currentIndex = steps
                 /\ ~listen.isComplete
                 /\ Returned("advanceListenNote") => ret.status = "playing"
           /\ steps >= n =>
                 /\ listen.currentIndex = n - 1
                 /\ listen.isComplete
                 /\ Returned("advanceListenNote") => ret.status = "complete"

\* one advance more after the three advances that complete three notes
C19_Witness ==
    /\ phaseState.phase = PHASES.LISTEN
    /\ Returned("advanceListenNote")
    /\ Len(Get(phaseState.listen).activeNotes) = 3
    /\ steps = 4
    /\ Get(phaseState.listen).currentIndex = 2
    /\ Get(phaseState.listen).isComplete

\* C20: each recordExploreTap call in the EXPLORE phase increments tapCount
\* by exactly 1 and sets complete to (new tapCount >= maxTaps, default 6),
\* returning 'complete' iff complete and 'exploring' otherwise; with the
\* default the phase completes on the 6th tap and not before.
C20_ExploreTap ==
    /\ [][ (op'.name = "recordExploreTap" /\ ~Threw(ret')) =>
              LET before == Get(phaseState.explore)
                  after  == Get(phaseState'.explore)
              IN  /\ after.tapCount = before.tapCount + 1
                  /\ after.isComplete = (after.tapCount >= op'.maxTaps)
                  /\ ret'.status = (IF after.isComplete THEN "complete"
                                                        ELSE "exploring") ]_vars
    /\ [](Returned("recordExploreTap") =>
             /\ Get(phaseState.explore).tapCount = steps
             /\ op.maxTaps = 6 => Get(phaseState.explore).isComplete = (steps >= 6))

\* the sixth tap with the default maxTaps
C20_Witness ==
    /\ Returned("recordExploreTap")
    /\ op.maxTaps = 6
    /\ steps = 6
    /\ Get(phaseState.explore).tapCount = 6
    /\ Get(phaseState.explore).isComplete
    /\ ret.status = "complete"

\* the quiz records of a PhaseState, none when the quiz was never started
QuizRecords(s) == IF s.quiz = Null THEN <<>> ELSE Get(s.quiz).results

\* the taps counted by the explore phase, none when it was never started
ExploreTaps(s) == IF s.explore = Null THEN 0 ELSE Get(s.explore).tapCount

\* C21: startResultPhase, from any PhaseState, sets phase RESULT with
\* totalCount = the number of quiz result records (0 without a quiz
\* payload), correctCount = the number of those records with correct = true
\* (so correctCount <= totalCount), accuracy = correctCount / totalCount or 0
\* when totalCount = 0, results equal to the quiz results, and
\* exploreTapCount equal to the explore payload's tapCount (0 when absent).
C21_StartResultPhase ==
    [][ op'.name = "startResultPhase" =>
           LET records == QuizRecords(phaseState)
               right   == { i \in 1..Len(records) : records[i].correct }
               result  == Get(phaseState'.result)
           IN  /\ ~Threw(ret')
               /\ phaseState'.phase = PHASES.RESULT
               /\ result.totalCount = Len(records)
               /\ result.correctCount = Cardinality(right)
               /\ result.correctCount <= result.totalCount
               /\ IF result.totalCount = 0
                  THEN result.accuracy.num = 0
                  ELSE result.accuracy.num * result.totalCount
                          = result.correctCount * result.accuracy.den
               /\ result.accuracy.den > 0
               /\ result.results = records
               /\ result.exploreTapCount = ExploreTaps(phaseState) ]_vars

\* the summary of a quiz with two correct answers and a wrong one after six
\* explore taps
C21_Witness ==
    /\ Returned("startResultPhase")
    /\ phaseState.phase = PHASES.RESULT
    /\ Get(phaseState.result).totalCount = 3
    /\ Get(phaseState.result).correctCount = 2
    /\ Get(phaseState.result).exploreTapCount = 6

\* the complete flag of the payload of the current phase
CompleteFlag(s) == Get(s[PayloadOf(s.phase)]).isComplete

\* C22: isPhaseComplete returns the current payload's complete flag in
\* LISTEN, EXPLORE and QUIZ, always true in RESULT and false in the
\* uninitialized state; so it is false right after startListenPhase,
\* startExplorePhase or startQuizPhase and becomes true only through
\* advanceListenNote, recordExploreTap or answerQuiz reaching their
\* completion condition.
C22_IsPhaseComplete ==
    /\ [](isPhaseComplete(phaseState) =
             (CASE phaseState.phase = NULL          -> FALSE
                [] phaseState.phase = PHASES.RESULT -> TRUE
                [] OTHER                            -> CompleteFlag(phaseState)))
    /\ [][ /\ op'.name \in { "startListenPhase", "startExplorePhase", "startQuizPhase" }
              => ~Threw(ret') /\ ~isPhaseComplete(phaseState')
           /\ (/\ isPhaseComplete(phaseState')
               /\ ~isPhaseComplete(phaseState)
               /\ phaseState'.phase # PHASES.RESULT) =>
                 /\ phaseState'.phase = phaseState.phase
                 /\ ret'.status = "complete"
                 /\ CASE phaseState.phase = PHASES.LISTEN ->
                            /\ op'.name = "advanceListenNote"
                            /\ Get(phaseState.listen).currentIndex + 1
                                  = Len(Get(phaseState.listen).activeNotes)
                      [] phaseState.phase = PHASES.EXPLORE ->
                            /\ op'.name = "recordExploreTap"
                            /\ Get(phaseState.explore).tapCount + 1 = DefaultMaxTaps
                      [] phaseState.phase = PHASES.QUIZ ->
                            /\ op'.name = "answerQuiz"
                            /\ Get(phaseState.quiz).roundNumber
                                  = Get(phaseState.quiz).totalRounds ]_vars

\* the quiz completed by its last answer, after a complete listen phase and
\* an explore phase left before its last tap
C22_Witness ==
    /\ Returned("answerQuiz")
    /\ phaseState.phase = PHASES.QUIZ
    /\ isPhaseComplete(phaseState)
    /\ phaseState.listen # Null /\ Get(phaseState.listen).isComplete
    /\ phaseState.explore # Null /\ ~Get(phaseState.explore).isComplete

\* the full game flow was played: the listen sequence of [C4, G4] was
\* advanced until complete, six taps were explored, the three rounds of the
\* quiz were each answered with the presented question, and the summary was
\* started
FullGameFlow(s) ==
    /\ s.phase = PHASES.RESULT
    /\ s.listen # Null
    /\ Get(s.listen).activeNotes = Get(SessionNotes)
    /\ Get(s.listen).isComplete
    /\ ExploreTaps(s) = DefaultMaxTaps
    /\ s.quiz # Null
    /\ Get(s.quiz).isComplete
    /\ Len(QuizRecords(s)) = SessionRounds
    /\ \A i \in 1..Len(QuizRecords(s)) :
          QuizRecords(s)[i].answer = QuizRecords(s)[i].question

\* C23: with notes [C4, G4], Listening advanced until complete (2
\* advances), Exploring tapped 6 times, Quizzing over 3 rounds answered with
\* the presented question each round, then Summarizing, yields for every
\* choice of random questions phase RESULT with correctCount 3, totalCount
\* 3, accuracy 1, exploreTapCount 6, and getNextPhase of the final phase is
\* LISTEN: the order LISTEN, EXPLORE, QUIZ, RESULT is cyclic and unknown
\* phases map to LISTEN.
C23_FullGameFlow ==
    /\ phaseState.phase = PHASES.LISTEN =>
          (Get(phaseState.listen).isComplete <=> steps = 2)
    /\ FullGameFlow(phaseState) =>
          LET result == Get(phaseState.result)
          IN  /\ result.correctCount = 3
              /\ result.totalCount = 3
              /\ result.accuracy.num = result.accuracy.den
              /\ result.exploreTapCount = 6
              /\ getNextPhase(phaseState.phase) = PHASES.LISTEN
    /\ getNextPhase(PHASES.LISTEN) = PHASES.EXPLORE
    /\ getNextPhase(PHASES.EXPLORE) = PHASES.QUIZ
    /\ getNextPhase(PHASES.QUIZ) = PHASES.RESULT
    /\ getNextPhase(PHASES.RESULT) = PHASES.LISTEN
    /\ \A unknown \in { NULL, "UNKNOWN" } : getNextPhase(unknown) = PHASES.LISTEN

\* the summary of the full game flow in which the quiz asked both notes
C23_Witness ==
    /\ Returned("startResultPhase")
    /\ FullGameFlow(phaseState)
    /\ \E i, j \in 1..SessionRounds :
          QuizRecords(phaseState)[i].question # QuizRecords(phaseState)[j].question

\* C24: storage failures are never fatal: when the key-value store throws
\* on any access, saveProgress and resetProgress return false, loadProgress
\* returns null (also for an absent key or unparsable content) and
\* hasExistingProgress returns false, and none of them propagates an error;
\* after a successful resetProgress, loadProgress returns null until the
\* next successful save.
C24_StorageFailures ==
    [][ fault' = fault =>
           /\ op'.name \in { "saveProgress", "resetProgress", "hasExistingProgress" } =>
                 /\ ret' \in BOOLEAN
                 /\ fault = "denied" => ret' = FALSE /\ localStorage' = localStorage
           /\ op'.name = "loadProgress" =>
                 /\ ret' = Null \/ \E s \in SavedStates : ret' = Some(s)
                 /\ fault = "denied" => ret' = Null
                 /\ localStorage \in { Null, Some(Unparsable) } => ret' = Null
                 /\ cleared => ret' = Null ]_vars

\* a saved state that cannot be loaded while the store denies access
C24_Witness ==
    /\ op.name = "loadProgress"
    /\ fault = "denied"
    /\ \E s \in SavedStates : localStorage = Some(JSON_stringify(s))
    /\ ret = Null

\* the NoteProgress of a pair as it is read: a zeroed record when absent
ProgressOf(s, note, instrument) ==
    IF HasProgress(s.noteProgress, note, instrument)
    THEN s.noteProgress[<<note, instrument>>]
    ELSE createNoteProgress

\* C30: recordAnswer(state, note, instrument, result) changes only the
\* NoteProgress of that (note, instrument) pair (attempts + 1, correct + 1
\* iff the result is correct, so correct <= attempts always), creating it
\* from a zeroed record when absent even for a note that is not active, and
\* leaves every other pair's progress, activeNotes, activeInstruments,
\* currentStage and sessionsPlayed unchanged.
C30_RecordAnswerFrame ==
    /\ \A pair \in DOMAIN state.noteProgress :
          state.noteProgress[pair].correct <= state.noteProgress[pair].attempts
    /\ (op.name = "recordAnswer" /\ "instrument" \in DOMAIN op) =>
          LET pair   == <<op.note, op.instrument>>
              before == ProgressOf(pre, op.note, op.instrument)
              after  == state.noteProgress[pair]
          IN  /\ DOMAIN state.noteProgress = DOMAIN pre.noteProgress \cup { pair }
              /\ after.attempts = before.attempts + 1
              /\ after.correct = before.correct + (IF op.wasCorrect THEN 1 ELSE 0)
              /\ \A other \in DOMAIN pre.noteProgress \ { pair } :
                    state.noteProgress[other] = pre.noteProgress[other]
              /\ state.activeNotes = pre.activeNotes
              /\ state.activeInstruments = pre.activeInstruments
              /\ state.currentStage = pre.currentStage
              /\ state.sessionsPlayed = pre.sessionsPlayed

\* a first wrong answer for a note that is not active, on the last
\* instrument
C30_Witness ==
    /\ op.name = "recordAnswer"
    /\ "instrument" \in DOMAIN op
    /\ op.note \notin Range(state.activeNotes)
    /\ op.instrument = INSTRUMENTS[Len(INSTRUMENTS)]
    /\ ~op.wasCorrect
    /\ <<op.note, op.instrument>> \notin DOMAIN pre.noteProgress
    /\ state.noteProgress[<<op.note, op.instrument>>].attempts = 1
    /\ state.noteProgress[<<op.note, op.instrument>>].correct = 0

\* the render that follows a callback shows RESULT after another phase
EntersResult ==
    /\ hook.gameState.phase # PHASES.RESULT
    /\ hook'.gameState.phase = PHASES.RESULT

\* C25: a callback that brings the hook into RESULT applies
\* applyAdaptiveDifficulty to the progress state exactly once, and the
\* outcome is the progress state, the argument of saveProgress and the
\* content of the store; a callback that does not enter RESULT applies it
\* not at all, saves nothing, and leaves activeNotes as they are.
C25_AdaptiveOncePerResult ==
    [][ IF EntersResult
        THEN /\ hook'.adaptive = 1
             /\ hook'.progressState = applyAdaptiveDifficulty(hook.progressState)
             /\ hook'.saved = Some(hook'.progressState)
             /\ localStorage' = Some(JSON_stringify(hook'.progressState))
        ELSE /\ hook'.adaptive = 0
             /\ hook'.saved = Null
             /\ localStorage' = localStorage
             /\ hook'.progressState.activeNotes = hook.progressState.activeNotes
      ]_vars

\* RESULT was entered and the step promoted or demoted a note of the quiz
C25_Witness ==
    /\ hook.gameState.phase = PHASES.RESULT
    /\ hook.adaptive = 1
    /\ hook.saved = Some(hook.progressState)
    /\ hook.progressState.activeNotes # Get(hook.gameState.quiz).activeNotes

\* C26: whenever onCircleTap records an answer in the quiz, a question has
\* been played, the answer is recorded for the note and the instrument of
\* the question played last, and it is correct exactly when the tapped note
\* is that question's note.
C26_AnswerForPlayedQuestion ==
    (op.name = "onCircleTap" /\ hook.answered # Null) =>
        LET record == Get(hook.answered)
        IN  /\ record.played # Null
            /\ record.note = Get(record.played).note
            /\ record.instrument = Get(record.played).instrument
            /\ record.wasCorrect = (op.note = Get(record.played).note)

\* the callback is the explore timeout, or the tap that is the 6th since
\* EXPLORE was entered
EndsExplore ==
    \/ op'.name = "exploreTimeout"
    \/ /\ op'.name = "onCircleTap"
       /\ hook'.exploreTaps[FirstNote] + hook'.exploreTaps[NOTE_INTRODUCTION_ORDER[2]]
            + hook'.exploreTaps[NOTE_INTRODUCTION_ORDER[3]] = EXPLORE_MAX_TAPS

\* C27: startQuizPhase is called at most once in a session; in EXPLORE the
\* explore timeout and the 6th tap start the quiz and every other callback
\* leaves the phase EXPLORE; once the quiz has started no callback of
\* listening or exploring changes the phase or the quiz.
C27_QuizStartedOnce ==
    /\ [](hook.quizStarts <= 1)
    /\ [][ /\ hook.gameState.phase = PHASES.EXPLORE =>
                IF EndsExplore
                THEN /\ hook'.gameState.phase = PHASES.QUIZ
                     /\ hook'.quizStarts = 1
                ELSE /\ hook'.gameState.phase = PHASES.EXPLORE
                     /\ hook'.quizStarts = 0
           /\ hook.gameState.phase = PHASES.QUIZ =>
                /\ hook'.gameState.phase = PHASES.QUIZ
                /\ hook'.gameState.quiz = hook.gameState.quiz
                /\ hook'.quizStarts = hook.quizStarts
         ]_vars

\* C28: restart() leaves the hook in LISTEN at index 0, not complete, with
\* no payload of another phase, and the listen sequence is the activeNotes
\* of the progress state at the call, which restart does not change and
\* which are the activeNotes saved at the preceding RESULT phase.
C28_RestartListensToActiveNotes ==
    [][ op'.name = "restart" =>
          /\ hook'.gameState =
                 [ PhaseManager_createInitialState EXCEPT
                     !.phase  = PHASES.LISTEN,
                     !.listen = Some([ activeNotes  |-> hook.progressState.activeNotes,
                                       currentIndex |-> 0,
                                       isComplete   |-> FALSE ]) ]
          /\ hook'.progressState = hook.progressState
          /\ localStorage # Null
          /\ hook.progressState.activeNotes = Get(localStorage).json.activeNotes
      ]_vars

\* restart after a session whose RESULT phase promoted the third note: the
\* new session listens to it
C28_Witness ==
    /\ op.name = "restart"
    /\ hook.gameState.phase = PHASES.LISTEN
    /\ Get(hook.gameState.listen).activeNotes
         = SubSeq(NOTE_INTRODUCTION_ORDER, 1, 3)
    /\ Attempts(hook.progressState, NOTE_INTRODUCTION_ORDER[3], INSTRUMENTS[1]) = 0

\* C29: a tap on a note in EXPLORE is the k-th tap on that note since
\* EXPLORE was entered, for the k of that note alone, and plays the note on
\* eligible[(k-1) mod m] (position ((k-1) mod m) + 1 of the sequence), where
\* eligible is the note's list of eligible instruments and m its length.
C29_ExploreCycle ==
    [][ (hook.gameState.phase = PHASES.EXPLORE /\ op'.name = "onCircleTap") =>
          LET note     == op'.note
              eligible == getEligibleInstruments(hook.progressState, note)
              k        == hook'.exploreTaps[note]
          IN  /\ k = hook.exploreTaps[note] + 1
              /\ \A other \in Range(NOTE_INTRODUCTION_ORDER) \ {note} :
                    hook'.exploreTaps[other] = hook.exploreTaps[other]
              /\ hook'.heard =
                    Some([ note       |-> note,
                           instrument |-> eligible[((k - 1) % Len(eligible)) + 1] ])
      ]_vars

\* the 4th tap on a note with three eligible instruments, after a tap on
\* another note, plays the first instrument again
C29_Witness ==
    /\ op.name = "onCircleTap"
    /\ hook.heard = Some([ note |-> FirstNote, instrument |-> INSTRUMENTS[1] ])
    /\ Len(getEligibleInstruments(hook.progressState, FirstNote)) = Len(INSTRUMENTS)
    /\ hook.exploreTaps[FirstNote] = Len(INSTRUMENTS) + 1
    /\ hook.exploreTaps[NOTE_INTRODUCTION_ORDER[2]] = 1

\* rolling accuracy of a note on an instrument, 0 without a record
AccuracyOn(s, note, instrument) ==
    IF HasProgress(s.noteProgress, note, instrument)
    THEN getRollingAccuracy(s.noteProgress[<<note, instrument>>])
    ELSE [num |-> 0, den |-> 1]

\* max(0.1, 1 - accuracy) in units of 1 / WeightScale
FlooredWeight(accuracy) ==
    IF 10 * (accuracy.den - accuracy.num) >= accuracy.den
    THEN (WeightScale * (accuracy.den - accuracy.num)) \div accuracy.den
    ELSE WeightScale \div 10

\* C31: with two or more active notes, on every instrument, every active
\* note has a positive weight, 1.0 with zero attempts and otherwise
\* max(0.1, 1 - rolling accuracy); a note of lower rolling accuracy never has
\* the smaller weight; and for every active note there is a value of
\* Math.random() * totalWeight below the total that selects it.
C31_NoNoteStarved ==
    Len(state.activeNotes) >= 2 =>
       \A j \in 1..Len(INSTRUMENTS) :
          LET instrument == INSTRUMENTS[j]
              total      == SumWeights(state, instrument, 1)
          IN  \A i \in 1..Len(state.activeNotes) :
                 LET note   == state.activeNotes[i]
                     weight == noteWeight(state, note, instrument)
                 IN  /\ weight > 0
                     /\ weight = IF Attempts(state, note, instrument) = 0
                                 THEN WeightScale
                                 ELSE FlooredWeight(AccuracyOn(state, note, instrument))
                     /\ \A k \in 1..Len(state.activeNotes) :
                           FracLT(AccuracyOn(state, note, instrument),
                                  AccuracyOn(state, state.activeNotes[k], instrument))
                             => weight >= noteWeight(state, state.activeNotes[k], instrument)
                     /\ \E random \in {shareDraw(state, instrument, i)} :
                           /\ random < total * RandSteps
                           /\ SelectFrom(state, instrument, 1, random) = note

\* a draw selected the last of three or more active notes, whose weight on
\* the first instrument is the floor
C31_Witness ==
    /\ op.name = "getWeightedNoteSelection"
    /\ Len(state.activeNotes) >= 3
    /\ ~Threw(ret)
    /\ ret.note = LastActive(state)
    /\ op.excess > 1
    /\ MasteredOn(state, LastActive(state), INSTRUMENTS[1])
    /\ noteWeight(state, LastActive(state), INSTRUMENTS[1]) = WeightScale \div 10

\* C32: selectQuizInstrument returns a member of the note's eligible list
\* for every outcome of Math.random(): the single instrument of a list of
\* one, otherwise the last (newest) or one of the earlier instruments.
C32_QuizInstrumentEligible ==
    op.name = "selectQuizInstrument" =>
       LET eligible == getEligibleInstruments(state, op.note)
       IN  /\ ret \in Range(eligible)
           /\ Len(eligible) = 1 => ret = eligible[1]
           /\ Len(eligible) > 1 =>
                 \/ ret = eligible[Len(eligible)]
                 \/ \E i \in 1..(Len(eligible) - 1) : ret = eligible[i]

\* the 40% branch returned the second of three eligible instruments
C32_Witness ==
    /\ op.name = "selectQuizInstrument"
    /\ Len(getEligibleInstruments(state, op.note)) = 3
    /\ ret = getEligibleInstruments(state, op.note)[2]

\* C33: in every state reachable by recordAnswer, applyPromotion,
\* applyDemotion and addNextNote, addNextNote adds the first note of the
\* introduction order that is not active (the note applyPromotion would
\* add), raises currentStage by one and leaves activeNotes without
\* duplicates; once every note of the order is active it returns the state
\* unchanged.
C33_AddNextNote ==
    op.name = "addNextNote" =>
       IF findNextNote(pre) = NULL
       THEN state = pre
       ELSE /\ state.activeNotes = Append(pre.activeNotes, findNextNote(pre))
            /\ state.currentStage = pre.currentStage + 1
            /\ NoDuplicates(state.activeNotes)

\* the promise of some loadAllInstruments call is resolved in this step
AllLoadedResolves ==
    \E k \in 1..Len(audio'.calls) :
       /\ audio'.calls[k].settled = "resolved"
       /\ k > Len(audio.calls) \/ audio.calls[k].settled # "resolved"

\* C34: the promise of loadAllInstruments resolves only when every
\* instrument is loaded (in the loaded list, with status 'ready' or
\* 'fallback'), also when a load from an earlier call is still in flight;
\* and an instrument whose load attempt has finished, either way, is not
\* reported as loading.
C34_ResolvedWhenAllLoaded ==
    /\ [][ AllLoadedResolves =>
             \A name \in Range(ALL_INSTRUMENTS) :
                /\ name \in getLoadingStatus(audio').loaded
                /\ getLoadingProgress(audio').instruments[name] \in { "ready", "fallback" } ]_vars
    /\ [] \A name \in Range(ALL_INSTRUMENTS) :
             (\A sampler \in audio.samplers : sampler.name # name) =>
                /\ name \notin getLoadingStatus(audio).loading
                /\ getLoadingProgress(audio).instruments[name] # "loading"

\* every active note is mastered on every instrument of the fixed order
MasteredOnAll(s) ==
    \A note \in Range(s.activeNotes), k \in 1..Len(INSTRUMENTS) :
       MasteredOn(s, note, INSTRUMENTS[k])

\* every active note is mastered on the first instrument, not all on the rest
MasteredOnFirstAlone(s) ==
    /\ \A note \in Range(s.activeNotes) : MasteredOn(s, note, INSTRUMENTS[1])
    /\ ~MasteredOnAll(s)

C36_NeverBothFire ==
    /\ ~(checkPromotion(state).shouldPromote /\ checkDemotion(state).shouldDemote)
    /\ op.name = "checkPromotion, checkDemotion" =>
          ~(ret.promotion.shouldPromote /\ ret.demotion.shouldDemote)

\* with all three instruments in rotation, three or more active notes are
\* mastered on the first instrument and the demotion check fires for the
\* last one
C36_Witness ==
    /\ op.name = "checkPromotion, checkDemotion"
    /\ Len(pre.activeInstruments) = Len(INSTRUMENTS)
    /\ \A note \in Range(pre.activeNotes) : MasteredOn(pre, note, INSTRUMENTS[1])
    /\ ret.demotion.shouldDemote
    /\ ~ret.promotion.shouldPromote
    /\ ~checkDemotion(state).shouldDemote

\* C37: under recordAnswer and applyAdaptiveDifficulty from
\* createInitialState, activeNotes is a prefix of the introduction order:
\* a note is added at the end and removed from the end only.
C37_PrefixOfIntroductionOrder ==
    /\ Len(state.activeNotes) <= Len(NOTE_INTRODUCTION_ORDER)
    /\ state.activeNotes = SubSeq(NOTE_INTRODUCTION_ORDER, 1, Len(state.activeNotes))
    /\ \/ state.activeNotes = pre.activeNotes
       \/ state.activeNotes = Append(pre.activeNotes, LastActive(state))
       \/ pre.activeNotes = Append(state.activeNotes, LastActive(pre))

\* the adjustment removed the fourth note, which had fallen below the
\* demotion accuracy, and left the first three
C37_Witness ==
    /\ op.name = "applyAdaptiveDifficulty"
    /\ Len(pre.activeNotes) = 4
    /\ BelowHalf(pre, NOTE_INTRODUCTION_ORDER[4], INSTRUMENTS[1])
    /\ state.activeNotes = SubSeq(NOTE_INTRODUCTION_ORDER, 1, 3)

\* C38: under recordAnswer, applyPromotion, applyDemotion and
\* applyAdaptiveDifficulty from createInitialState, currentStage is at least
\* 1 and equals activeNotes.length - 1.
C38_StageTracksActiveNotes ==
    /\ state.currentStage >= 1
    /\ state.currentStage = Len(state.activeNotes) - 1

\* a demotion from three notes at stage 2 back to two notes at stage 1,
\* after a promotion had raised both
C38_Witness ==
    /\ op.name \in { "applyDemotion", "applyAdaptiveDifficulty" }
    /\ Len(pre.activeNotes) = 3
    /\ pre.currentStage = 2
    /\ Len(state.activeNotes) = 2
    /\ state.currentStage = 1

\* C39: after startQuizPhase(notes, N) and any number of answerQuiz calls,
\* also after the quiz is complete, results holds at most N records, their
\* rounds are 1, 2, ... in order without repetition, and currentQuestion is
\* a note of the pool.
C39_QuizResultsBounded ==
    phaseState.phase = PHASES.QUIZ =>
       LET quiz == Get(phaseState.quiz)
       IN  /\ Len(quiz.results) <= quiz.totalRounds
           /\ \A i \in 1..Len(quiz.results) : quiz.results[i].round = i
           /\ quiz.currentQuestion \in Range(quiz.activeNotes)

\* the phase changes of one session, in order
SessionOrder ==
    { <<PHASES.LISTEN, PHASES.EXPLORE>>,
      <<PHASES.EXPLORE, PHASES.QUIZ>>,
      <<PHASES.QUIZ, PHASES.RESULT>> }

\* the callbacks of the timers of the listening and exploring phases
WarmupTimers == { "listenInterval", "playNextContrast", "exploreTimeout" }

\* C40: under any interleaving of taps, timer callbacks and restart, the
\* phase changes only from LISTEN to EXPLORE to QUIZ to RESULT, and back to
\* LISTEN through restart alone; a timer callback of an earlier phase never
\* moves the phase backwards, skips a phase, or resets the explore tap count
\* or the quiz results.
C40_PhasesInOrder ==
    [][ /\ hook'.gameState.phase # hook.gameState.phase =>
             \/ <<hook.gameState.phase, hook'.gameState.phase>> \in SessionOrder
             \/ /\ op'.name = "restart"
                /\ hook'.gameState.phase = PHASES.LISTEN
        /\ /\ op'.name \in WarmupTimers \ { "exploreTimeout" }
           /\ hook.gameState.phase = PHASES.EXPLORE
           /\ hook'.gameState.phase = PHASES.EXPLORE
           => Get(hook'.gameState.explore).tapCount = Get(hook.gameState.explore).tapCount
        /\ /\ op'.name \in WarmupTimers
           /\ hook.gameState.phase = PHASES.QUIZ
           /\ hook'.gameState.phase = PHASES.QUIZ
           => Get(hook'.gameState.quiz).results = Get(hook.gameState.quiz).results
      ]_vars

====
